---- MODULE Spec2Model ----
(***************************************************************************)
(* Model of the tile manager of the drone simulator:                       *)
(*   src/src/utils/dataManager/DataManager.ts       (DataManager)          *)
(*   src/src/utils/dataManager/DataBlockCache.ts    (DataBlockCache)       *)
(*   src/src/utils/dataManager/MockDataGenerator.ts (MockDataGenerator)    *)
(*   src/src/utils/3dviewer/utils/MercatorConverter.ts                     *)
(*                                                                         *)
(* Units.  Latitudes and longitudes are integers counting 1/10000 of a     *)
(* degree (10000 = one degree).  Projected coordinates are integers in     *)
(* decametres (10 m).  The option values loadRadius and unloadDistance,    *)
(* kilometres in the source, are integers counting 0.1 km, so the default  *)
(* 2.5 km is 25.  distanceBetweenCoords returns the SQUARE of the          *)
(* projected distance in decametres; a comparison  d < r  of the source    *)
(* is the comparison  d^2 < r^2  here, which is the same for d, r >= 0.    *)
(* options.blockSize is the number the source passes around; the manager   *)
(* uses it as a grid step in degrees and the generator as a length that    *)
(* it divides by 111 to get degrees.  A value of 0 in `options` stands for *)
(* an absent field: the source reads every option as  options.x || dflt.   *)
(***************************************************************************)
EXTENDS Integers, Sequences, FiniteSets, TLC

VARIABLES
    options,            \* the DataManagerOptions given to the constructor
    cache,              \* DataBlockCache.cache: the Map, in insertion order
    listeners,          \* DataManager.listeners: the Set, in insertion order
    lastDronePosition,  \* DataManager.lastDronePosition (Null or [lat, lng])
    nextRef,            \* number of DataBlock objects created so far
    closures,           \* listeners for which an unsubscribe closure exists
    stack,              \* updateDronePosition calls suspended in a forEach
    call,               \* history: the current or most recent operation
    log,                \* history: listener invocations of that call
    removedBy,          \* history: what took each listener out of the Set
    emitted,            \* history: the tiles named by the events emitted
                        \*          so far (empty where it is not kept)
    generators,         \* the options of each MockDataGenerator constructed
    now,                \* Date.now()
    results,            \* history: the generateBlock calls and their results
    measured,           \* history: the metersPerDegreeAtLatitude calls
    itemMeshes,         \* Viewer3DContextLayer.itemMeshes: the keys, in order
    itemData,           \* Viewer3DContextLayer.itemData: the keys, in order
    handles             \* history: the closures onDataChange has returned

\* The variables of the data manager, and the ones beside it.
manager == <<options, cache, listeners, lastDronePosition, nextRef, closures,
             stack, call, log, removedBy, emitted>>

aside == <<generators, now, results, measured, itemMeshes, itemData,
           handles>>

vars == <<options, cache, listeners, lastDronePosition, nextRef, closures,
          stack, call, log, removedBy, emitted, generators, now, results,
          measured, itemMeshes, itemData, handles>>

Null == [none |-> TRUE]

----------------------------------------------------------------------------
(* Bounds of the model.                                                    *)

\* DataBlock objects created in one behaviour.
MaxBlocks == 4

\* Projected offsets beyond Far decametres are not told apart (Far exceeds
\* every radius of OptionsSet; it keeps the squares within TLC's integers).
Far == 30000

\* The grid points the radius properties range over lie within GridSpan
\* steps of the origin, either way.
GridSpan == 3

\* The listener functions of the environment.
Listeners == {"L1", "L2"}

\* Observer positions handed to updateDronePosition, <<lat, lng>>.
Positions ==
    { <<0, 0>>, <<0, 5>>, <<0, 10>>, <<0, 200>>, <<0, 5000>>,
      <<0, 10000>>, <<5000, 0>>, <<5000, 5000>> }

\* Constructor arguments: the defaults; a 60 km / 80 km configuration in
\* which neighbouring grid points load together; and a configuration with
\* unloadDistance below loadRadius, which the constructor accepts as well.
OptionsSet ==
    { [blockSize |-> 0, loadRadius |-> 0,   unloadDistance |-> 0],
      [blockSize |-> 0, loadRadius |-> 600, unloadDistance |-> 800],
      [blockSize |-> 1, loadRadius |-> 600, unloadDistance |-> 400] }

----------------------------------------------------------------------------
(* Arithmetic helpers.                                                     *)

Abs(x) == IF x < 0 THEN -x ELSE x

Min(a, b) == IF a <= b THEN a ELSE b

Sq(x) == x * x

\* Math.ceil(a / b) for b > 0.
Ceil(a, b) == -((-a) \div b)

\* Math.round(a / b) for b > 0: the nearest integer, halves towards +infinity.
MathRound(a, b) == (2 * a + b) \div (2 * b)

\* options.x || dflt
OrDefault(x, dflt) == IF x # 0 THEN x ELSE dflt

----------------------------------------------------------------------------
(* MercatorConverter: spherical Mercator (the toMercator of @turf), for    *)
(* latitudes of at most 85 degrees either side of the equator.             *)

\* Northing  6378137 * ln(tan(pi/4 + lat/2))  at 0, 1, ..., 85 degrees,
\* rounded to decametres.
MercatorNorthing ==
    << 0, 11133, 22268, 33411, 44564, 55731, 66914, 78118, 89346, 100602,
       111889, 123211, 134571, 145973, 157422, 168920, 180472, 192083, 203755,
       215494, 227303, 239188, 251153, 263202, 275341, 287574, 299908, 312347,
       324897, 337565, 350355, 363275, 376331, 389530, 402880, 416388, 430062,
       443911, 457943, 472167, 486594, 501234, 516098, 531197, 546544, 562152,
       578035, 594207, 610685, 627486, 644628, 662129, 680013, 698300, 717016,
       736187, 755842, 776012, 796732, 818039, 839974, 862582, 885914, 910025,
       934976, 960837, 987685, 1015606, 1044700, 1075079, 1106872, 1140227,
       1175318, 1212348, 1251555, 1293224, 1337702, 1385409, 1436868, 1492740,
       1553871, 1621380, 1696780, 1782191, 1880721, 1997187 >>

\* Easting  6378137 * lng * pi/180  at a whole number of degrees: 11131.949
\* decametres a degree.
EastingAtDegree(d) == d * 11132 - (d * 51 + 500) \div 1000

\* y of latLngToMeters, linear between whole degrees.
MercatorY(lat) ==
    LET a == Abs(lat)
        d == a \div 10000
        f == a % 10000
        y == IF f = 0
             THEN MercatorNorthing[d + 1]
             ELSE MercatorNorthing[d + 1]
                  + ((MercatorNorthing[d + 2] - MercatorNorthing[d + 1]) * f
                     + 5000) \div 10000
    IN  IF lat < 0 THEN -y ELSE y

\* x of latLngToMeters.
MercatorX(lng) ==
    LET a == Abs(lng)
        d == a \div 10000
        f == a % 10000
        x == EastingAtDegree(d) + (11132 * f + 5000) \div 10000
    IN  IF lng < 0 THEN -x ELSE x

latLngToMeters(latitude, longitude) ==
    <<MercatorX(longitude), MercatorY(latitude)>>

\* MercatorConverter.distanceInMeters, squared, in decametres.
distanceInMeters(lat1, lng1, lat2, lng2) ==
    LET p1 == latLngToMeters(lat1, lng1)
        p2 == latLngToMeters(lat2, lng2)
        dx == p2[1] - p1[1]
        dy == p2[2] - p1[2]
    IN  IF Abs(dx) > Far \/ Abs(dy) > Far
        THEN Sq(Far)
        ELSE Min(dx * dx + dy * dy, Sq(Far))

\* DataManager.distanceBetweenCoords: the squared projected distance.
distanceBetweenCoords(lat1, lng1, lat2, lng2) ==
    distanceInMeters(lat1, lng1, lat2, lng2)

\* A length of the options (0.1 km) as a squared length in decametres,
\* cut off at Far like the distances it is compared with.
KmSq(r) == Sq(Min(10 * r, Far))

----------------------------------------------------------------------------
(* DataBlockCache: a Map from id to DataBlock.  A Map iterates in          *)
(* insertion order, so it is a sequence of entries [key, block].           *)

CacheIndex(c, id) ==
    IF \E i \in 1..Len(c) : c[i].key = id
    THEN CHOOSE i \in 1..Len(c) : c[i].key = id
    ELSE 0

CacheHas(c, id) == \E i \in 1..Len(c) : c[i].key = id

\* get(id): the block, or Null for undefined.
CacheGet(c, id) ==
    IF CacheHas(c, id) THEN c[CacheIndex(c, id)].block ELSE Null

\* Mutant of CacheSet: the entry is keyed by the latitude part of the id.
CacheSetKeyedByLatitude(c, block) ==
    LET key == <<"block", block.id[2]>>
    IN  IF CacheHas(c, key)
        THEN [c EXCEPT ![CacheIndex(c, key)] =
                           [key |-> key, block |-> block]]
        ELSE Append(c, [key |-> key, block |-> block])

\* set(block): this.cache.set(block.id, block).  Map.set keeps the place of
\* a key that is already present.
CacheSet(c, block) ==
    IF CacheHas(c, block.id)
    THEN [c EXCEPT ![CacheIndex(c, block.id)] =
                       [key |-> block.id, block |-> block]]
    ELSE Append(c, [key |-> block.id, block |-> block])

CacheDelete(c, id) == SelectSeq(c, LAMBDA e : e.key # id)

\* getAll(): Array.from(this.cache.values()).
CacheGetAll(c) == [i \in 1..Len(c) |-> c[i].block]

----------------------------------------------------------------------------
(* MockDataGenerator.  The heightfield and the items of a block play no    *)
(* part in loading and unloading and are left out of the block record;     *)
(* `ref` is the identity of the object generateBlock returns.              *)

METERS_PER_DEGREE_LAT == 111

BLOCK_SIZE_M == 1000

\* 10000 * cos(lat) at 0, 1, ..., 85 degrees.
CosineTable ==
    << 10000, 9998, 9994, 9986, 9976, 9962, 9945, 9925, 9903, 9877, 9848,
       9816, 9781, 9744, 9703, 9659, 9613, 9563, 9511, 9455, 9397, 9336, 9272,
       9205, 9135, 9063, 8988, 8910, 8829, 8746, 8660, 8572, 8480, 8387, 8290,
       8192, 8090, 7986, 7880, 7771, 7660, 7547, 7431, 7314, 7193, 7071, 6947,
       6820, 6691, 6561, 6428, 6293, 6157, 6018, 5878, 5736, 5592, 5446, 5299,
       5150, 5000, 4848, 4695, 4540, 4384, 4226, 4067, 3907, 3746, 3584, 3420,
       3256, 3090, 2924, 2756, 2588, 2419, 2250, 2079, 1908, 1736, 1564, 1392,
       1219, 1045, 872 >>

\* `${n}` of a number: its sign and its magnitude ("-0" prints as "0").
NumberToString(n) == [neg |-> n < 0, digits |-> Abs(n)]

parseFloat(s) == IF s.neg THEN -s.digits ELSE s.digits

\* `block_${blockLat}_${blockLng}`
BlockId(blockLat, blockLng) ==
    <<"block", NumberToString(blockLat), NumberToString(blockLng)>>

\* MockDataGenerator.blockSize, from the same options as the manager's.
GeneratorBlockSize(o) == OrDefault(o.blockSize, BLOCK_SIZE_M)

\* Mutant of calculateBounds: the grid coordinate is the south-west corner
\* of the bounds and not their centre.
calculateBoundsFromCorner(o, blockLat, blockLng) ==
    LET latOffsetDeg ==
            (GeneratorBlockSize(o) * 10000) \div (2 * METERS_PER_DEGREE_LAT)
        lngOffsetDeg ==
            (latOffsetDeg * 10000)
                \div CosineTable[Abs(blockLat) \div 10000 + 1]
    IN  [north |-> blockLat + 2 * latOffsetDeg,
         south |-> blockLat,
         east  |-> blockLng + 2 * lngOffsetDeg,
         west  |-> blockLng]

\* calculateBounds, for a generator built with options o.  blockLat is at a
\* whole degree in every call the manager makes.
calculateBounds(o, blockLat, blockLng) ==
    LET latOffsetDeg ==
            (GeneratorBlockSize(o) * 10000) \div (2 * METERS_PER_DEGREE_LAT)
        lngOffsetDeg ==
            (latOffsetDeg * 10000)
                \div CosineTable[Abs(blockLat) \div 10000 + 1]
    IN  [north |-> blockLat + latOffsetDeg,
         south |-> blockLat - latOffsetDeg,
         east  |-> blockLng + lngOffsetDeg,
         west  |-> blockLng - lngOffsetDeg]

\* Mutant of generateBlock: one object is returned for every call.
generateBlockReturningSameObject(o, blockLat, blockLng, ref) ==
    [id     |-> BlockId(blockLat, blockLng),
     bounds |-> calculateBounds(o, blockLat, blockLng),
     ref    |-> 0]

\* generateBlock; ref is the identity of the new object.
generateBlock(o, blockLat, blockLng, ref) ==
    [id     |-> BlockId(blockLat, blockLng),
     bounds |-> calculateBounds(o, blockLat, blockLng),
     ref    |-> ref]

----------------------------------------------------------------------------
(* MockDataGenerator: the heightfield and the contextual items.  Elevations *)
(* and the sizes of items are integers in millimetres; a seeded random      *)
(* number, in [0, 1) in the source, is an integer counting 1/10000.         *)

Max(a, b) == IF a > b THEN a ELSE b

ELEVATION_MIN == 0
ELEVATION_MAX == 500
ITEMS_PER_BLOCK_MIN == 5
ITEMS_PER_BLOCK_MAX == 15
SEED_INCREMENT == 12345
HASH_INITIAL_VALUE == 5381
LANDMARK_PROBABILITY == 1000
LANDMARK_HEIGHT_MIN == 30
LANDMARK_HEIGHT_RANGE == 40
BUILDING_PROBABILITY == 3000
BUILDING_HEIGHT_MIN == 10
BUILDING_HEIGHT_RANGE == 20
TREE_HEIGHT_MIN == 15
TREE_HEIGHT_RANGE == 20
ITEM_WIDTH_MAX == 10
ITEM_WIDTH_OFFSET == 5
ITEM_DEPTH_MAX == 10
ITEM_DEPTH_OFFSET == 5

\* Infinity, as the start value of the running minimum and maximum.
Infinity == 1000000000

\* MockDataGenerator.heightfieldResolution
HeightfieldResolution(o) == OrDefault(o.heightfieldResolution, 32)

\* Math.sin(seed) * 10000 less its floor, cut to four decimals, for the
\* seeds the model draws: the seed of a tile and the seeds of its items.
\* The sum totalElevation of perlinLike, in millimetres, at the samples of
\* the heightfield in the order generateElevationData takes them, by
\* << blockSize of the generator, resolution, blockLat, blockLng >>.
SeededRandomTable ==
    (4899909 :> 1726) @@ (4899910 :> 61) @@ (4899911 :> 6747) @@
    (4899912 :> 1792) @@ (4899913 :> 7035) @@ (4899914 :> 6646) @@
    (4912254 :> 2158) @@ (4912255 :> 2873) @@ (4912256 :> 3308) @@
    (4912257 :> 8679) @@ (4912258 :> 528) @@ (4912259 :> 663) @@
    (4924599 :> 3044) @@ (4924600 :> 8022) @@ (4924601 :> 414) @@
    (4924602 :> 2218) @@ (4924603 :> 1522) @@ (4924604 :> 9497) @@
    (4936944 :> 519) @@ (4936945 :> 6649) @@ (4936946 :> 224) @@
    (4936947 :> 4657) @@ (4936948 :> 2867) @@ (4936949 :> 8862) @@
    (4949289 :> 4870) @@ (4949290 :> 832) @@ (4949291 :> 863) @@
    (4949292 :> 6705) @@ (4949293 :> 4047) @@ (4949294 :> 1473) @@
    (4961634 :> 3393) @@ (4961635 :> 2908) @@ (4961636 :> 9917) @@
    (4961637 :> 5613) @@ (4961638 :> 6402) @@ (4961639 :> 582) @@
    (4973979 :> 9043) @@ (4973980 :> 7349) @@ (4973981 :> 3834) @@
    (4973982 :> 742) @@ (4973983 :> 613) @@ (4973984 :> 5233) @@
    (5826909 :> 9141) @@ (5858909 :> 8071) @@ (5859909 :> 9510) @@
    (5859910 :> 8042) @@ (5859911 :> 5572) @@ (5859912 :> 9079) @@
    (5859913 :> 2323) @@ (5859914 :> 2428) @@ (5860909 :> 8862) @@
    (5872254 :> 7199) @@ (5872255 :> 8945) @@ (5872256 :> 5947) @@
    (5872257 :> 7906) @@ (5872258 :> 3872) @@ (5872259 :> 3099) @@
    (5884599 :> 7022) @@ (5884600 :> 3064) @@ (5884601 :> 8285) @@
    (5884602 :> 3880) @@ (5884603 :> 6462) @@ (5884604 :> 9367) @@
    (5892909 :> 3643) @@ (5892910 :> 4028) @@ (5892911 :> 5084) @@
    (5892912 :> 1436) @@ (5892913 :> 779) @@ (5892914 :> 4727) @@
    (5893909 :> 4345) @@ (5896944 :> 2080) @@ (5896945 :> 3492) @@
    (5896946 :> 3530) @@ (5896947 :> 2190) @@ (5896948 :> 7056) @@
    (5896949 :> 8233) @@ (5905254 :> 5788) @@ (5905255 :> 7915) @@
    (5905256 :> 7877) @@ (5905257 :> 1068) @@ (5905258 :> 6192) @@
    (5905259 :> 2373) @@ (5909289 :> 6893) @@ (5909290 :> 4947) @@
    (5909291 :> 6757) @@ (5909292 :> 4616) @@ (5909293 :> 6293) @@
    (5909294 :> 6951) @@ (5917599 :> 7647) @@ (5917600 :> 1523) @@
    (5917601 :> 5241) @@ (5917602 :> 5477) @@ (5917603 :> 9866) @@
    (5917604 :> 9534) @@ (5921634 :> 3199) @@ (5921635 :> 7689) @@
    (5921636 :> 2541) @@ (5921637 :> 5125) @@ (5921638 :> 2662) @@
    (5921639 :> 9109) @@ (5929944 :> 9380) @@ (5929945 :> 5190) @@
    (5929946 :> 6533) @@ (5929947 :> 1121) @@ (5929948 :> 401) @@
    (5929949 :> 7976) @@ (5933979 :> 1059) @@ (5933980 :> 8763) @@
    (5933981 :> 8065) @@ (5933982 :> 8066) @@ (5933983 :> 2160) @@
    (5933984 :> 53) @@ (5942289 :> 6222) @@ (5942290 :> 4270) @@
    (5942291 :> 7629) @@ (5942292 :> 2235) @@ (5942293 :> 6580) @@
    (5942294 :> 1054) @@ (5946324 :> 5181) @@ (5946325 :> 9191) @@
    (5946326 :> 2384) @@ (5946327 :> 1049) @@ (5946328 :> 9133) @@
    (5946329 :> 9324) @@ (5954634 :> 2237) @@ (5954635 :> 1568) @@
    (5954636 :> 7211) @@ (5954637 :> 7374) @@ (5954638 :> 4481) @@
    (5954639 :> 1501) @@ (5958669 :> 3942) @@ (5958670 :> 4638) @@
    (5958671 :> 1642) @@ (5958672 :> 4664) @@ (5958673 :> 5468) @@
    (5958674 :> 7524) @@ (5966979 :> 3245) @@ (5966980 :> 9728) @@
    (5966981 :> 1278) @@ (5966982 :> 6714) @@ (5966983 :> 8363) @@
    (5966984 :> 427) @@ (5971014 :> 6273) @@ (5971015 :> 2890) @@
    (5971016 :> 4454) @@ (5971017 :> 3603) @@ (5971018 :> 2380) @@
    (5971019 :> 8693) @@ (5979324 :> 7295) @@ (5979325 :> 1126) @@
    (5979326 :> 3222) @@ (5979327 :> 8584) @@ (5979328 :> 2505) @@
    (5979329 :> 1498) @@ (5983359 :> 5551) @@ (5983360 :> 2737) @@
    (5983361 :> 4063) @@ (5983362 :> 9034) @@ (5983363 :> 9446) @@
    (5983364 :> 209) @@ (5991669 :> 1032) @@ (5991670 :> 6774) @@
    (5991671 :> 1296) @@ (5991672 :> 1429) @@ (5991673 :> 9349) @@
    (5991674 :> 5328) @@ (5995704 :> 6702) @@ (5995705 :> 5310) @@
    (5995706 :> 4808) @@ (5995707 :> 8734) @@ (5995708 :> 6574) @@
    (5995709 :> 1767) @@ (6004014 :> 1495) @@ (6004015 :> 9291) @@
    (6004016 :> 3172) @@ (6004017 :> 7430) @@ (6004018 :> 3167) @@
    (6004019 :> 5721) @@ (6008049 :> 7889) @@ (6008050 :> 347) @@
    (6008051 :> 9708) @@ (6008052 :> 7827) @@ (6008053 :> 469) @@
    (6008054 :> 3845) @@ (6020394 :> 4835) @@ (6020395 :> 7003) @@
    (6020396 :> 2348) @@ (6020397 :> 5149) @@ (6020398 :> 6437) @@
    (6020399 :> 3272) @@ (6032739 :> 7564) @@ (6032740 :> 7916) @@
    (6032741 :> 3916) @@ (6032742 :> 9034) @@ (6032743 :> 1707) @@
    (6032744 :> 7238) @@ (6045084 :> 3598) @@ (6045085 :> 9042) @@
    (6045086 :> 8245) @@ (6045087 :> 8438) @@ (6045088 :> 7398) @@
    (6045089 :> 8593) @@ (6057429 :> 3237) @@ (6057430 :> 6513) @@
    (6057431 :> 1404) @@ (6057432 :> 5335) @@ (6057433 :> 792) @@
    (6057434 :> 1293) @@ (6069774 :> 8146) @@ (6069775 :> 4740) @@
    (6069776 :> 7725) @@ (6069777 :> 8764) @@ (6069778 :> 9479) @@
    (6069779 :> 6448) @@ (6082119 :> 9744) @@ (6082120 :> 7929) @@
    (6082121 :> 942) @@ (6082122 :> 5249) @@ (6082123 :> 4194) @@
    (6082124 :> 9002)

TotalElevationTable ==
    (<<1000, 32, 0, 0>> :> <<
        107547, 109321, 114674, 134090, 131271, 149950, 161337, 177477,
        152666, 138814, 125737, 141610, 125451, 108155, 76875, 82908,
        80956, 98989, 112710, 166083, 200258, 218113, 182822, 158299,
        127975, 116913, 83961, 76570, 75944, 100868, 100700, 111176,
        183730, 159620, 126780, 99521, 123944, 134513, 143463, 132960,
        157711, 161734, 156128, 115471, 112626, 109217, 111870, 72314,
        66240, 82747, 141975, 168408, 198962, 210309, 229733, 187291,
        125360, 55138, 48182, 50804, 68497, 72420, 117980, 160660, 205587,
        200172, 145520, 115549, 103880, 116312, 107308, 122502, 143245,
        173789, 152721, 125876, 100515, 115053, 105951, 93904, 75405,
        107928, 139739, 173565, 179737, 209315, 216030, 195558, 115671,
        55433, 23153, 38964, 48397, 84523, 133432, 201729, 191026, 192331,
        188067, 150779, 106991, 77624, 94380, 118584, 137570, 135257,
        142498, 138816, 127244, 98317, 96014, 110117, 134514, 133473,
        138446, 152136, 182858, 186510, 174100, 145435, 124622, 84677,
        45243, 21695, 54065, 110309, 167399, 195256, 162816, 178473,
        198054, 179031, 125015, 84554, 89416, 108921, 111132, 105735,
        121904, 143307, 137181, 107637, 103054, 136052, 168759, 164460,
        146441, 147171, 159472, 147085, 116467, 102620, 114979, 113906,
        83736, 59840, 84100, 136462, 172597, 182228, 150349, 168475,
        169504, 172221, 156664, 136735, 99169, 81889, 77163, 97700, 106623,
        120189, 123781, 141836, 147757, 161613, 166080, 181644, 173267,
        153695, 111479, 89348, 75684, 85932, 91980, 113961, 128576, 146067,
        142308, 146319, 151358, 171243, 143174, 141940, 142062, 147736,
        183325, 171911, 128562, 68070, 67787, 78733, 95295, 87795, 124139,
        164611, 199682, 178500, 173782, 175602, 188185, 138285, 82867,
        40777, 58123, 65726, 84243, 107310, 175647, 211676, 207671, 157801,
        144385, 141726, 107317, 115851, 121113, 152196, 163981, 174128,
        141859, 113390, 70728, 64276, 61025, 98113, 129768, 180834, 196512,
        210690, 189185, 179162, 141778, 116206, 68726, 50508, 31939, 55329,
        82144, 144860, 191457, 236227, 228167, 204766, 149111, 111842,
        95765, 87510, 124930, 138446, 141880, 135076, 157784, 145715,
        108660, 54259, 65838, 104268, 153526, 162959, 190545, 208497,
        214769, 156661, 105887, 73508, 82566, 61157, 46460, 49595, 114727,
        167488, 204266, 209096, 232204, 220565, 171169, 80791, 107585,
        103983, 105734, 113695, 110487, 124565, 139924, 152041, 130276,
        109176, 98562, 120179, 138541, 162147, 176040, 193524, 177073,
        140394, 89487, 71156, 67023, 77444, 79874, 104810, 135970, 173121,
        186120, 199274, 202439, 197687, 153136, 97091, 138407, 126286,
        92254, 78284, 95857, 115872, 118273, 125046, 151986, 175160,
        162929, 133430, 128200, 152226, 164519, 145225, 118540, 110508,
        105056, 83606, 65435, 86334, 135207, 166829, 162633, 155162,
        167578, 180000, 164233, 135519, 123115, 121852, 142259, 126710,
        98803, 74450, 83634, 89601, 100957, 118256, 169891, 205778, 209988,
        170990, 147075, 130613, 121370, 89576, 78620, 83244, 104586, 99376,
        102876, 123238, 173249, 193070, 185982, 157129, 149004, 132574,
        113045, 89695, 104202, 126044, 115878, 114242, 109459, 103583,
        68780, 68118, 90198, 145175, 172686, 204071, 214496, 222968,
        174074, 115544, 56348, 54084, 54961, 72016, 78242, 123181, 157850,
        189127, 181758, 191754, 188203, 179198, 122739, 81449, 58622,
        81158, 93176, 116743, 118634, 99520, 118097, 104743, 87086, 70384,
        111306, 145680, 178284, 182491, 215949, 218694, 190313, 100941,
        47119, 22875, 46338, 51100, 89474, 137848, 208308, 217483, 206531,
        177978, 183900, 154864, 110613, 49794, 48581, 63057, 92774, 103268,
        132962, 121468, 95860, 100511, 107467, 129126, 127040, 143217,
        156705, 188923, 187945, 182023, 146844, 120597, 68766, 38072,
        20317, 62494, 112004, 173309, 198763, 224441, 214960, 197437,
        145860, 114116, 83094, 76597, 55349, 59108, 74205, 124553, 148485,
        130181, 102973, 99522, 141587, 165112, 160025, 139098, 152805,
        163227, 153916, 117189, 111204, 115780, 110432, 67329, 53106,
        82342, 145212, 174032, 188338, 197334, 214265, 183909, 126602,
        75121, 79088, 89638, 86160, 67434, 89978, 131882, 123933, 129485,
        134365, 143509, 157721, 171917, 177751, 169019, 146224, 117183,
        93093, 82466, 86761, 100399, 114986, 124821, 130000, 135178,
        145013, 159600, 173238, 177533, 166906, 142816, 113775, 90980,
        82248, 88082, 102278, 116490, 125634, 130514, 94404, 128117,
        170021, 192565, 173839, 170361, 180911, 184878, 133397, 76090,
        45734, 62665, 71661, 85967, 114787, 177657, 206893, 192670, 149567,
        144219, 148795, 142810, 106083, 96772, 107194, 120901, 99974,
        94887, 118412, 160477, 157026, 129818, 99933, 135446, 185794,
        200891, 204650, 183402, 176905, 145883, 114139, 62562, 45039,
        35558, 61236, 86690, 147995, 197505, 239682, 221927, 191233,
        139402, 113155, 77976, 72054, 71076, 103294, 116782, 132959,
        130873, 152532, 159488, 164139, 138531, 110456, 156731, 167225,
        196942, 211418, 210205, 149386, 105135, 76099, 82021, 53468, 42516,
        51691, 122151, 170525, 208899, 213661, 237124, 212880, 159058,
        69686, 41305, 44050, 77508, 81715, 114319, 148693, 189615, 172913,
        155256, 141902, 160479, 124758, 143256, 166823, 178841, 201377,
        178550, 137260, 80801, 71796, 68245, 78241, 70872, 102149, 136818,
        181757, 187983, 205038, 205915, 203651, 144455, 85925, 37031,
        45503, 55928, 87313, 114824, 169801, 191881, 191219, 156416,
        150540, 145757, 125072, 133955, 155797, 170304, 146954, 127425,
        110995, 102870, 74017, 66929, 86750, 136761, 157123, 160623,
        155413, 176755, 181379, 170423, 138629, 129386, 112924, 89009,
        50011, 54221, 90108, 141743, 159042, 170398, 176365, 185549,
        161196, 133289, 160012, 138147, 136884, 124480, 95766, 79999,
        92421, 104837, 97366, 93170, 124792, 173665, 194564, 176393,
        154943, 149491, 141459, 114774, 95480, 107773, 131799, 126569,
        97070, 84839, 108013, 134953, 141726, 144127, 164142, 181715,
        167745, 133713, 210969, 162908, 106863, 62312, 57560, 60725, 73879,
        86878, 124029, 155189, 180125, 182555, 192976, 188843, 170512,
        119605, 82926, 66475, 83959, 97852, 121458, 139820, 161437, 150823,
        129723, 107958, 120075, 135434, 149512, 146304, 154265, 156016,
        221373, 179208, 88830, 39434, 27795, 50903, 55733, 92511, 145272,
        210404, 213539, 198842, 177433, 186491, 154112, 103338, 45230,
        51502, 69454, 97040, 106473, 155731, 194161, 205740, 151339,
        114284, 102215, 124923, 118119, 121553, 135069, 172489, 187613,
        148157, 110888, 55233, 31832, 23772, 68542, 115139, 177855, 204670,
        228060, 209491, 191273, 143793, 118221, 80837, 70814, 49309, 63487,
        79165, 130231, 161886, 198974, 195723, 189271, 146609, 118140,
        85871, 96018, 107803, 138886, 144148, 120389, 118273, 115614,
        102198, 52328, 48323, 84352, 152689, 175756, 194273, 201876,
        219222, 177132, 121714, 71814, 84397, 86217, 81499, 60317, 95388,
        135860, 172204, 164704, 181266, 192212, 191929, 131437, 88088,
        76674, 112263, 117937, 118059, 87964, 88756, 108641, 113680,
        117691, 113932, 131423, 146038, 168019, 174067, 184315, 170651,
        148520, 106304, 86732, 78355, 93919, 98386, 112242, 118163, 136218,
        139810, 153376, 162299, 182836, 178110, 160830, 123264, 103335,
        87778, 90495, 91524, 66032, 77771, 87402, 123537, 175899, 200159,
        176263, 146093, 145020, 157379, 143532, 112914, 100527, 112828,
        113558, 95539, 91240, 123947, 156945, 152362, 122818, 116692,
        138095, 154264, 148867, 151078, 170583, 175445, 134984, 80968,
        61945, 81526, 42993, 64743, 92600, 149690, 205934, 238304, 214756,
        175322, 135377, 114564, 85899, 73489, 77141, 107863, 121553,
        126526, 125485, 149882, 163985, 161682, 132755, 121183, 117501,
        124742, 122429, 141415, 165619, 182375, 153008, 109220, 71932,
        67668, 38359, 58270, 126567, 175476, 211602, 221035, 236846,
        204566, 144328, 64441, 43969, 50684, 80262, 86434, 120260, 152071,
        184594, 166095, 154048, 144946, 159484, 134123, 107278, 86210,
        116754, 137497, 152691, 143687, 156119, 144450, 114479, 59827,
        64056, 99339, 142019, 187579, 191502, 209195, 211817, 204861,
        134639, 72708, 30266, 49690, 61037, 91591, 118024, 177252, 193759,
        187685, 148129, 150782, 147373, 144528, 103871, 98265, 102288,
        127039, 116536, 125486, 136055, 160478, 133219, 100379 >>)
    @@
    (<<1000, 32, 10000, 0>> :> <<
        174012, 194312, 198677, 181069, 113808, 85116, 88977, 127258,
        123883, 127314, 129260, 156244, 134701, 111138, 93254, 135809,
        157090, 163192, 138046, 158611, 172570, 179478, 139871, 129906,
        120500, 115338, 63929, 45619, 65889, 137660, 174310, 197926,
        163763, 173399, 195266, 179006, 152302, 110444, 103230, 93883,
        102304, 99150, 123752, 132243, 142068, 124054, 135493, 149448,
        180875, 175209, 171683, 149965, 144897, 114891, 102027, 90412,
        113317, 116108, 118765, 104580, 124155, 142962, 172109, 176943,
        150527, 163823, 154660, 165554, 176622, 169407, 116373, 77228,
        70214, 97658, 103228, 108472, 122717, 165293, 181374, 179424,
        168708, 188236, 188260, 156844, 93406, 66337, 66524, 84351, 87087,
        115701, 157785, 196292, 182628, 157651, 146523, 165169, 130079,
        132319, 133562, 152836, 182088, 183153, 142799, 93310, 71946,
        74932, 81733, 94351, 131033, 180705, 208564, 201303, 186110,
        182431, 172741, 132371, 77618, 45682, 48012, 63837, 86102, 129375,
        192626, 236437, 229217, 186745, 150161, 129949, 103998, 99796,
        130513, 150072, 159398, 155467, 160117, 137484, 98048, 55993,
        66080, 104261, 152363, 174283, 200671, 215225, 215052, 170590,
        126578, 93491, 84668, 59257, 43017, 49734, 106145, 162997, 208058,
        225541, 240588, 221703, 170190, 93932, 99607, 101695, 116812,
        136558, 123988, 135814, 150719, 164289, 122112, 88591, 79111,
        123484, 148127, 171715, 181565, 213806, 200336, 158580, 91954,
        78255, 75742, 81396, 61570, 84723, 127209, 184261, 196479, 211664,
        218571, 223522, 165984, 94390, 135753, 117488, 106841, 91662,
        112017, 120215, 138989, 136379, 153795, 146274, 144917, 124057,
        141751, 156506, 183746, 167790, 156238, 122809, 109145, 75296,
        73894, 79137, 122026, 140090, 161799, 161719, 186869, 190486,
        193649, 163794, 146828, 111577, 145610, 139875, 93395, 81202,
        89011, 114043, 107053, 127295, 161764, 208883, 192477, 161907,
        133715, 152492, 144036, 124882, 91567, 105502, 107448, 103488,
        79966, 113247, 158916, 197865, 175823, 163206, 156905, 167708,
        136837, 115863, 110449, 137436, 136051, 122434, 113290, 91704,
        82230, 76873, 101301, 133496, 181301, 209081, 224767, 203257,
        171504, 122392, 92484, 68966, 72982, 77359, 98700, 113263, 141694,
        160864, 187978, 195761, 198191, 172069, 142999, 104284, 88927,
        84454, 105526, 123724, 117654, 108912, 121317, 113726, 80170,
        68860, 103948, 154655, 181476, 196519, 220549, 233682, 192630,
        110794, 48019, 39875, 55459, 65474, 83875, 136206, 194855, 215738,
        198392, 187637, 192674, 177338, 120085, 63592, 52502, 77994, 98301,
        112437, 128632, 116586, 109297, 109847, 100290, 107293, 122147,
        151997, 169813, 193008, 205372, 210004, 172915, 118321, 58102,
        34574, 32298, 62042, 102902, 165534, 210192, 232461, 215329,
        195367, 166726, 140764, 97868, 68351, 52589, 66408, 84849, 120214,
        154051, 129474, 104640, 96352, 136464, 154090, 154813, 137844,
        162982, 179224, 181904, 145185, 135126, 120802, 104286, 51101,
        40564, 70305, 143115, 177471, 202573, 210363, 228875, 194976,
        142910, 87797, 88500, 87376, 81746, 59931, 87842, 131828, 138524,
        141253, 117405, 130336, 151090, 183032, 170769, 164790, 148272,
        150851, 120091, 105965, 94138, 120019, 114887, 109184, 90177,
        120545, 145960, 179084, 178712, 197930, 191067, 175393, 117061,
        89636, 78282, 100940, 95654, 102260, 107786, 142449, 114809,
        127481, 165886, 173227, 175785, 168925, 191837, 182393, 151440,
        90381, 73658, 70306, 89574, 89515, 123628, 155261, 187857, 167128,
        155223, 148493, 173163, 160687, 143202, 114397, 120896, 108736,
        100896, 87711, 120334, 144596, 155805, 128751, 95432, 138514,
        184264, 210354, 192073, 183550, 181615, 177415, 125607, 73121,
        41721, 56119, 66838, 92014, 131055, 201132, 233395, 221363, 170824,
        148134, 131629, 117294, 85149, 87581, 107173, 131077, 119223,
        119244, 137663, 172901, 166523, 141022, 111627, 152794, 182388,
        203740, 217483, 205413, 168463, 125520, 98406, 77643, 54859, 38971,
        57829, 109104, 168777, 209935, 233915, 237838, 213534, 154689,
        91539, 56814, 60954, 78622, 97070, 118348, 148756, 169821, 171172,
        160219, 157524, 156498, 126511, 155418, 172362, 189427, 217181,
        202306, 149420, 89349, 77657, 80039, 74997, 56452, 81336, 134481,
        188099, 201455, 214494, 225984, 221821, 156832, 79974, 35081,
        50389, 70337, 89899, 114646, 169048, 200593, 192475, 155701,
        150284, 158811, 124484, 145652, 162902, 185345, 174733, 160716,
        123687, 101041, 71490, 74492, 82162, 116818, 133634, 159790,
        167713, 192114, 194072, 197938, 169842, 146568, 100902, 73000,
        44988, 61145, 88424, 140089, 166982, 191231, 185599, 182074,
        157429, 146600, 149939, 132802, 157772, 149103, 127969, 97054,
        111378, 106804, 96875, 74618, 115286, 160379, 194227, 167919,
        162747, 161392, 174500, 138995, 121631, 114966, 138548, 111841,
        82723, 64078, 110336, 141741, 161317, 152932, 179918, 188220,
        177527, 129955, 189682, 161031, 120064, 99316, 72542, 77477, 81344,
        106022, 111146, 136422, 154081, 191438, 195952, 195900, 162885,
        143839, 107620, 96897, 85404, 112322, 127189, 147012, 132175,
        130667, 118611, 130377, 128866, 148854, 156672, 174292, 161808,
        154853, 232067, 177882, 101603, 44499, 47792, 57880, 71044, 86785,
        144450, 191741, 211424, 190820, 191944, 192104, 175806, 110302,
        65042, 55214, 86396, 98806, 119616, 148690, 193807, 187840, 149588,
        106832, 116835, 133658, 142202, 131263, 150651, 170595, 212293,
        172039, 102938, 49418, 30497, 40677, 64015, 108751, 168105, 218726,
        229235, 211173, 187730, 171091, 140301, 96235, 58657, 53761, 69387,
        92925, 121063, 165657, 205113, 212003, 176785, 135323, 112318,
        109505, 108918, 117908, 140678, 166469, 153169, 137476, 119727,
        89054, 42163, 36761, 78241, 145470, 182889, 205753, 218339, 226294,
        190171, 136081, 91373, 88804, 84794, 72974, 60136, 91792, 138813,
        177635, 183717, 194213, 197600, 182405, 127851, 87710, 85078,
        118455, 133603, 135517, 107322, 101258, 123182, 112902, 94868,
        80164, 117751, 152855, 182646, 182989, 202325, 197844, 174149,
        110955, 84067, 80439, 102615, 91676, 94861, 106524, 147865, 157377,
        166244, 169800, 199361, 190605, 157333, 103862, 96799, 101203,
        112884, 102925, 75734, 92207, 95282, 128131, 151792, 174931,
        155711, 153975, 153932, 178230, 163498, 149177, 119655, 121101,
        101044, 96838, 88363, 123466, 139091, 149902, 126113, 135466,
        144459, 170403, 163785, 173344, 167556, 165497, 120875, 90359,
        71371, 95855, 63143, 70775, 96101, 135255, 207084, 228488, 209988,
        157974, 148345, 135677, 123840, 86569, 94854, 111025, 132586,
        110254, 116391, 137069, 177226, 159965, 136228, 114450, 138378,
        139678, 143175, 141927, 180345, 185717, 157944, 92120, 72270,
        74295, 38273, 66084, 111723, 174037, 213002, 241089, 231848,
        203239, 140848, 92809, 59915, 68332, 79121, 105145, 121445, 150929,
        160159, 168945, 159156, 162362, 149486, 137955, 110836, 110004,
        118949, 149057, 161184, 171738, 158009, 138834, 96016, 68261,
        52960, 79848, 143362, 190149, 207354, 217081, 233621, 215471,
        146946, 65846, 36515, 53248, 77829, 90339, 122686, 172157, 202681,
        183053, 153278, 149477, 163298, 146658, 108799, 90868, 115127,
        138951, 139725, 134193, 151938, 162586, 134167, 80976, 108062,
        130077, 158435, 176526, 194397, 199715, 200888, 177165, 140651,
        90456, 59352, 45822, 64657, 95174, 141238, 174251, 195256, 186826,
        173559, 154019, 146846, 133960, 126870, 113729, 111049, 105624,
        112134, 119750, 138936, 147120, 147707, 131450, 162654, 186277,
        163626, 162288, 169296, 177790, 143692, 125639, 121119, 133704,
        100210, 70292, 63625, 115086, 147211, 163871, 158874, 185294,
        188037, 170459, 125145, 126598, 139345, 146601, 104667, 83796,
        86074, 116460, 115341, 123666, 144790, 188963, 193500, 197009,
        189305, 157240, 144812, 114174, 101626, 88571, 117742, 131845,
        143671, 118991, 119714, 116666, 136719, 132847, 152894, 161099,
        181195, 160169, 149207, 131511, 145357, 131256, 118398, 86039,
        87203, 82563, 100318, 113853, 164096, 200779, 187329, 195523,
        191673, 170749, 103227, 67511, 60211, 92538, 100503, 126490,
        151872, 191837, 173294, 140071, 103584, 124456, 136356, 147513,
        134518, 158671, 167797, 166708, 124665, 115934, 113835, 120615,
        83687, 69923, 82180, 139663, 170889, 198731 >>)
    @@
    (<<1000, 32, -310000, 630000>> :> <<
        -69027, -37804, -40999, -119794, -206320, -229065, -208383,
        -198811, -161181, -88573, -47434, -62041, -79117, -72606, -110518,
        -183473, -215376, -191225, -164886, -148246, -96674, -58663,
        -88921, -146328, -155228, -131169, -135619, -132601, -101128,
        -88488, -126908, -158737, -69587, -59105, -70997, -122509, -192811,
        -227238, -233807, -191725, -133912, -69735, -34629, -47488, -69602,
        -109563, -143603, -186592, -208827, -200287, -180025, -131371,
        -88292, -53626, -67872, -111278, -145023, -167767, -156806,
        -140955, -110305, -102850, -122940, -140772, -86693, -95375,
        -130939, -140677, -149824, -207880, -220241, -175294, -100596,
        -72275, -59521, -36697, -76163, -139290, -185632, -173604, -178436,
        -203111, -171128, -121520, -83344, -86853, -68520, -67354, -129044,
        -176342, -177460, -135718, -137974, -138424, -115353, -124733,
        -120724, -154070, -170040, -156524, -148366, -150136, -166773,
        -133735, -104765, -86449, -73046, -76767, -97056, -159558, -180338,
        -175196, -165221, -159666, -152440, -116995, -113646, -100226,
        -81673, -73581, -99073, -153327, -161879, -168004, -162688,
        -154569, -134833, -120241, -180853, -197763, -186579, -178276,
        -151697, -107903, -71229, -98541, -115985, -103434, -101118,
        -125641, -154489, -144185, -157867, -172927, -154717, -117547,
        -108158, -141430, -132949, -111116, -102201, -103719, -94200,
        -91095, -148729, -189256, -186801, -161962, -155953, -148472,
        -197583, -221884, -206367, -185156, -143682, -67831, -27776,
        -53205, -104674, -128765, -148453, -180166, -178454, -150454,
        -135274, -145620, -130209, -94902, -99557, -130385, -144469,
        -131045, -130908, -125844, -91323, -78649, -119631, -179670,
        -193266, -184269, -177643, -144162, -186769, -215542, -223160,
        -177597, -107818, -55795, -32962, -27936, -71258, -150947, -206559,
        -208179, -183324, -165858, -133420, -97971, -89644, -103848,
        -109905, -107238, -133894, -162548, -156153, -124265, -105602,
        -106086, -106069, -133338, -183498, -209691, -178358, -123522,
        -186151, -193331, -199626, -152326, -85129, -66359, -49522, -39553,
        -65352, -154732, -224225, -216047, -195589, -168827, -129353,
        -70855, -66010, -106634, -112307, -107761, -124408, -167663,
        -162059, -132853, -135047, -131336, -113875, -104216, -156127,
        -191540, -161237, -120486, -190465, -172498, -134753, -110787,
        -102283, -75063, -72633, -75792, -109296, -143622, -180985,
        -218199, -201370, -164411, -108169, -85294, -77949, -79960,
        -109119, -122266, -138043, -133614, -150075, -167499, -157803,
        -147941, -124547, -124771, -115267, -122614, -138406, -126854,
        -185976, -134831, -80790, -82669, -101567, -106382, -95928,
        -137724, -152043, -134470, -140500, -176111, -196223, -141922,
        -114892, -110230, -95347, -76669, -89963, -142688, -132878,
        -117718, -138858, -179734, -183778, -150502, -157049, -134571,
        -88572, -60881, -92571, -131953, -121978, -96819, -69905, -65499,
        -92301, -121896, -163918, -175529, -171107, -144090, -121088,
        -125717, -129777, -144711, -136713, -127358, -110129, -95324,
        -105168, -110577, -126749, -128217, -143092, -164998, -178177,
        -188679, -163597, -128581, -74214, -44381, -54494, -86846, -64616,
        -55665, -75955, -73030, -82308, -150062, -206049, -203848, -172048,
        -156407, -124401, -71883, -74725, -127294, -159681, -137878,
        -125738, -134824, -113869, -89676, -106660, -150484, -152579,
        -142326, -173378, -197121, -166001, -105467, -79290, -58170,
        -30984, -59971, -45064, -37170, -62967, -88821, -118616, -168039,
        -204816, -209365, -187000, -156206, -110247, -61330, -56538,
        -95212, -140113, -156905, -158625, -149806, -120733, -99273,
        -108342, -139448, -152490, -152667, -162370, -164699, -145023,
        -110444, -87318, -65688, -50526, -77228, -58764, -44177, -49166,
        -106993, -170883, -175840, -179968, -194419, -196586, -144552,
        -92778, -84702, -70393, -68172, -98518, -165245, -184313, -148664,
        -133830, -131324, -127395, -113858, -142618, -171141, -145407,
        -116240, -112109, -125124, -95922, -77177, -101879, -125097,
        -82314, -63921, -76003, -130933, -175530, -186146, -161428,
        -172418, -163539, -133111, -110646, -100116, -95109, -63464,
        -86880, -136537, -167484, -166132, -154102, -164231, -136276,
        -122434, -132787, -146600, -128083, -84896, -94926, -104791,
        -113378, -122562, -150038, -170238, -88575, -108232, -135620,
        -145377, -157166, -165965, -174827, -132390, -114998, -128461,
        -135845, -122820, -94691, -104335, -92964, -93981, -127038,
        -173496, -195571, -163643, -158917, -147967, -125957, -98680,
        -88729, -98500, -73511, -85636, -129888, -181999, -194866, -176467,
        -133256, -156379, -181375, -163195, -133970, -150184, -144692,
        -114604, -88933, -118445, -147416, -130657, -127676, -124843,
        -110348, -75151, -95983, -164972, -192002, -188732, -173712,
        -166649, -114766, -62611, -67639, -80670, -84058, -88133, -153735,
        -211813, -214126, -200452, -181349, -208013, -193616, -171301,
        -148824, -114634, -98180, -97758, -106558, -108064, -121713,
        -152440, -158316, -138986, -109070, -99741, -102740, -121698,
        -168404, -202776, -198036, -149054, -103146, -71919, -49781,
        -57568, -91600, -140460, -170724, -198439, -223901, -213101,
        -202710, -228192, -200673, -180170, -153245, -93881, -62472,
        -88729, -117634, -106760, -110207, -154092, -171294, -144013,
        -124474, -132847, -120651, -100678, -134422, -188812, -187848,
        -135077, -102618, -86785, -55289, -52793, -111605, -177211,
        -186566, -184310, -205780, -196996, -175570, -208203, -214591,
        -184821, -131479, -94784, -70465, -81749, -97204, -116535, -130738,
        -134602, -150589, -155007, -162237, -149375, -131573, -121490,
        -116056, -132996, -137750, -137999, -114909, -88169, -82704,
        -94423, -137292, -169926, -194287, -189651, -164486, -140097,
        -129724, -170112, -201458, -170731, -124485, -102121, -107704,
        -75656, -80535, -122737, -141942, -126783, -118511, -170732,
        -183190, -162740, -149057, -143837, -117135, -65290, -86649,
        -122006, -124498, -106640, -120682, -162086, -152560, -158588,
        -179429, -179409, -125533, -75345, -132090, -123630, -140690,
        -146714, -133465, -134428, -111275, -100486, -91606, -110643,
        -128442, -121117, -137219, -152146, -181111, -181389, -172671,
        -151868, -94638, -57758, -43058, -82042, -118197, -148541, -182721,
        -186162, -183600, -156737, -150267, -128013, -87370, -69357,
        -138028, -98561, -71068, -106311, -157020, -144260, -128004,
        -123546, -125476, -97924, -93135, -137061, -150974, -148002,
        -154616, -194584, -188819, -129224, -91277, -62636, -43411, -37244,
        -107485, -195629, -218397, -209906, -192324, -173976, -107704,
        -61785, -68630, -72751, -136795, -80384, -49719, -79031, -128943,
        -155061, -151445, -153811, -134840, -102173, -97338, -126726,
        -154565, -148638, -156437, -172156, -162943, -126209, -92108,
        -76821, -49843, -52412, -110370, -191089, -233456, -224842,
        -204155, -151586, -81724, -36553, -45264, -75056, -114547, -82010,
        -73919, -66429, -83525, -141976, -181917, -166760, -133783,
        -127734, -126893, -116245, -130394, -161652, -163915, -130979,
        -116487, -124645, -108968, -79607, -79261, -108875, -130600,
        -157855, -209057, -233498, -190676, -116760, -73684, -52063,
        -38135, -62950, -110761, -102300, -97425, -71805, -70481, -114419,
        -170762, -166206, -154109, -156969, -147860, -125251, -119248,
        -152904, -143986, -104514, -87885, -104043, -115466, -104230,
        -131864, -158158, -154743, -143903, -164506, -191552, -153457,
        -106462, -81297, -72105, -60370, -78808, -138541, -124083, -104217,
        -96326, -90294, -98763, -110258, -162276, -185879, -176600,
        -159247, -144875, -141499, -109087, -101937, -95419, -83845,
        -80815, -101733, -161597, -181641, -185448, -172971, -153605,
        -127245, -97077, -112186, -111613, -101554, -89316, -103856,
        -137218, -136467, -143630, -120340, -120456, -123573, -81294,
        -84697, -133919, -193916, -190993, -171228, -176191, -137367,
        -88263, -58143, -82763, -86826, -73116, -121417, -184532, -222520,
        -199192, -186471, -159320, -83796, -41167, -55085, -111969,
        -118737, -126628, -163608, -171517, -121108, -137894, -155470,
        -148793, -117893, -102458, -90427, -116653, -152037, -192793,
        -205632, -170298, -128946, -78315, -58973, -52678, -74162, -115911,
        -148777, -192098, -213373, -224497, -189515, -125608, -68238,
        -24396, -34330, -70005, -138397, -187633, -198832, -190423,
        -100652, -134651, -172189, -157423, -126777, -122492, -128088,
        -103593, -115649, -174180, -201905, -163304, -110133, -94953,
        -67011, -43965, -77574, -149338, -187390, -179907, -200008,
        -213567, -171069, -98448, -59789, -51087, -29126, -55246, -142417,
        -219638, -221652, -189140, -119674, -133593, -148517, -154856,
        -155319, -151589, -139977, -119526, -114837, -131891, -148350,
        -144513, -122839, -99469, -78630, -78111, -109818, -157600,
        -189472, -191662, -181094, -160459, -129650, -97211, -75233,
        -64373, -61482, -86165, -139469, -194305, -218162, -205931,
        -143501, -133221, -118261, -148131, -180682, -175171, -144508,
        -147636, -130465, -89055, -79610, -112110, -134916, -105246,
        -105434, -136421, -154108, -154016, -168836, -194708, -154593,
        -99823, -86937, -103790, -99184, -82688, -114750, -138443, -137855,
        -145694, -187653, -206903 >>)
    @@
    (<<1000, 2, 0, 0>> :> <<
        107547, 80956, 123933, 130000 >>)
    @@
    (<<1000, 2, 10000, 0>> :> <<
        174012, 157090, 126511, 214494 >>)
    @@
    (<<1000, 2, -310000, 630000>> :> <<
        -69027, -215376, -133256, -95983 >>)
    @@
    (<<1, 3, 0, 0>> :> <<
        128176, 128220, 128266, 129347, 129391, 129436, 130517, 130563,
        130608 >>)
    @@
    (<<1, 3, 10000, 0>> :> <<
        214283, 214432, 214579, 214277, 214425, 214572, 214269, 214416,
        214563 >>)
    @@
    (<<1, 3, -310000, 630000>> :> <<
        -95465, -95894, -96331, -95375, -95806, -96244, -95292, -95724,
        -96164 >>)

\* x << 5 on a 32-bit integer.
ShiftLeft5(x) ==
    LET low == x % 134217728
    IN  IF low >= 67108864 THEN (low - 134217728) * 32 ELSE low * 32

\* hashCoordinates: Math.floor(lat * 1000) is lat \div 10 here.
hashCoordinates(lat, lng) ==
    LET latInt == lat \div 10
        lngInt == lng \div 10
        first == ShiftLeft5(HASH_INITIAL_VALUE) + HASH_INITIAL_VALUE + latInt
        second == ShiftLeft5(first) + first + lngInt
    IN  Abs(second)

\* seededRandom
seededRandom(seed) == SeededRandomTable[seed]

\* totalElevation of perlinLike at the sample (row, col).
totalElevation(o, blockLat, blockLng, row, col) ==
    TotalElevationTable[<<GeneratorBlockSize(o), HeightfieldResolution(o),
                          blockLat, blockLng>>]
                       [row * HeightfieldResolution(o) + col + 1]

\* perlinLike: the sum, clamped.
perlinLike(o, blockLat, blockLng, row, col) ==
    Max(ELEVATION_MIN * 1000,
        Min(ELEVATION_MAX * 1000,
            totalElevation(o, blockLat, blockLng, row, col)))

\* minElevation = Math.min(minElevation, elevation) over the samples, from
\* the start value, and the same for the maximum: the least and the
\* greatest of data[lo..hi], found by halving the range.
RECURSIVE MinOver(_, _, _)
MinOver(data, lo, hi) ==
    IF lo = hi THEN data[lo]
    ELSE LET mid == (lo + hi) \div 2
         IN  Min(MinOver(data, lo, mid), MinOver(data, mid + 1, hi))

RECURSIVE MaxOver(_, _, _)
MaxOver(data, lo, hi) ==
    IF lo = hi THEN data[lo]
    ELSE LET mid == (lo + hi) \div 2
         IN  Max(MaxOver(data, lo, mid), MaxOver(data, mid + 1, hi))

RunningMin(data, start) ==
    IF data = <<>> THEN start ELSE Min(start, MinOver(data, 1, Len(data)))

RunningMax(data, start) ==
    IF data = <<>> THEN start ELSE Max(start, MaxOver(data, 1, Len(data)))

\* generateElevationData: the loops run for row, col = 0, 1, ... below
\* resolution, so not at all when resolution is not positive.
generateElevationData(o, blockLat, blockLng) ==
    LET resolution == HeightfieldResolution(o)
        side == Max(resolution, 0)
        data == [k \in 1..(side * side) |->
                    perlinLike(o, blockLat, blockLng,
                               (k - 1) \div side, (k - 1) % side)]
    IN  [width        |-> resolution,
         height       |-> resolution,
         minElevation |-> RunningMin(data, Infinity),
         maxElevation |-> RunningMax(data, -Infinity),
         data         |-> data]

\* The options a MockDataGenerator is constructed with; the constructor
\* takes whatever it is given.
GeneratorOptionsSet ==
    { [blockSize |-> 0, heightfieldResolution |-> 0],
      [blockSize |-> 0, heightfieldResolution |-> 2],
      [blockSize |-> 1, heightfieldResolution |-> 3],
      [blockSize |-> 0, heightfieldResolution |-> -1] }

\* The grid coordinates generateBlock is called with.
GeneratorCoordinates == { <<0, 0>>, <<10000, 0>>, <<-310000, 630000>> }

\* generateElevationData for each generator and tile of the model, computed
\* once: it depends on nothing but the options and the grid coordinate.
ElevationTable ==
    [o \in GeneratorOptionsSet, c \in GeneratorCoordinates |->
        generateElevationData(o, c[1], c[2])]

\* getElevationAtLatLng; data[index] || 0.
getElevationAtLatLng(lat, lng, elevation, bounds) ==
    LET x == ((lng - bounds.west) * 10000) \div (bounds.east - bounds.west)
        y == ((lat - bounds.south) * 10000)
                 \div (bounds.north - bounds.south)
        clampedX == Max(0, Min(10000, x))
        clampedY == Max(0, Min(10000, y))
        col == (clampedX * (elevation.width - 1)) \div 10000
        row == (clampedY * (elevation.height - 1)) \div 10000
        index == row * elevation.width + col
    IN  IF index + 1 \in 1..Len(elevation.data)
        THEN elevation.data[index + 1]
        ELSE 0

\* numItems of generateContextualItems.
numItems(seed) ==
    ITEMS_PER_BLOCK_MIN
        + (seededRandom(seed) * ITEMS_PER_BLOCK_MAX) \div 10000

\* `item_${blockLat}_${blockLng}_${i}`
ItemId(blockLat, blockLng, i) ==
    <<"item", NumberToString(blockLat), NumberToString(blockLng), i>>

\* One turn of the loop of generateContextualItems: the item pushed.
ContextualItem(blockLat, blockLng, i, seed, bounds, elevation) ==
    LET itemSeed == seed + i * SEED_INCREMENT
        itemLat == bounds.south
                     + (seededRandom(itemSeed)
                          * (bounds.north - bounds.south)) \div 10000
        itemLng == bounds.west
                     + (seededRandom(itemSeed + 1)
                          * (bounds.east - bounds.west)) \div 10000
        typeRandom == seededRandom(itemSeed + 2)
        type == IF typeRandom < LANDMARK_PROBABILITY THEN "landmark"
                ELSE IF typeRandom < BUILDING_PROBABILITY THEN "building"
                ELSE "tree"
        heightMin == IF type = "landmark" THEN LANDMARK_HEIGHT_MIN
                     ELSE IF type = "building" THEN BUILDING_HEIGHT_MIN
                     ELSE TREE_HEIGHT_MIN
        heightRange == IF type = "landmark" THEN LANDMARK_HEIGHT_RANGE
                       ELSE IF type = "building" THEN BUILDING_HEIGHT_RANGE
                       ELSE TREE_HEIGHT_RANGE
    IN  [id        |-> ItemId(blockLat, blockLng, i),
         type      |-> type,
         latitude  |-> itemLat,
         longitude |-> itemLng,
         elevation |-> getElevationAtLatLng(itemLat, itemLng, elevation,
                                            bounds),
         height    |-> heightMin * 1000
                         + (seededRandom(itemSeed + 3) * heightRange) \div 10,
         width     |-> (seededRandom(itemSeed + 4) * ITEM_WIDTH_MAX) \div 10
                         + ITEM_WIDTH_OFFSET * 1000,
         depth     |-> (seededRandom(itemSeed + 5) * ITEM_DEPTH_MAX) \div 10
                         + ITEM_DEPTH_OFFSET * 1000]

\* generateContextualItems
generateContextualItems(o, blockLat, blockLng, elevation) ==
    LET seed == hashCoordinates(blockLat, blockLng)
        bounds == calculateBounds(o, blockLat, blockLng)
    IN  [k \in 1..numItems(seed) |->
            ContextualItem(blockLat, blockLng, k - 1, seed, bounds,
                           elevation)]

\* Mutant of DataBlock: the items are numbered from the time of the call.
DataBlockNumberedFromClock(o, blockLat, blockLng, loadedAt) ==
    LET elevation == ElevationTable[o, <<blockLat, blockLng>>]
        items == generateContextualItems(o, blockLat, blockLng, elevation)
    IN  [id        |-> BlockId(blockLat, blockLng),
         bounds    |-> calculateBounds(o, blockLat, blockLng),
         elevation |-> elevation,
         items     |-> [k \in 1..Len(items) |->
                           [items[k] EXCEPT
                               !.id = ItemId(blockLat, blockLng,
                                             loadedAt + k - 1)]],
         loadedAt  |-> loadedAt]

\* The object generateBlock returns, with every field of a DataBlock;
\* loadedAt is the value Date.now() had.
DataBlock(o, blockLat, blockLng, loadedAt) ==
    LET elevation == ElevationTable[o, <<blockLat, blockLng>>]
    IN  [id        |-> BlockId(blockLat, blockLng),
         bounds    |-> calculateBounds(o, blockLat, blockLng),
         elevation |-> elevation,
         items     |-> generateContextualItems(o, blockLat, blockLng,
                                               elevation),
         loadedAt  |-> loadedAt]

----------------------------------------------------------------------------
(* DataManager: the fields the constructor sets, and the pure helpers.     *)

BlockSizeOf(o) == OrDefault(o.blockSize, 1)

LoadRadiusOf(o) == OrDefault(o.loadRadius, 20)

UnloadDistanceOf(o) == OrDefault(o.unloadDistance, 25)

blockSize == BlockSizeOf(options)

loadRadius == LoadRadiusOf(options)

unloadDistance == UnloadDistanceOf(options)

\* The movement threshold of updateDronePosition, 0.1 km.
MovementThreshold == 1

\* getBlocksInRadius with this.blockSize = bs: the ids in scan order.
getBlocksInRadius(bs, centerLat, centerLng, radiusKm) ==
    LET blocksPerSide == Ceil(radiusKm, 10 * bs) + 1
        side == 2 * blocksPerSide + 1
        step == bs * 10000
        blockLatAt(k) ==
            MathRound(centerLat, step) * step
                + (((k - 1) \div side) - blocksPerSide) * step
        blockLngAt(k) ==
            MathRound(centerLng, step) * step
                + (((k - 1) % side) - blocksPerSide) * step
        inRadius(k) ==
            distanceBetweenCoords(centerLat, centerLng,
                                  blockLatAt(k), blockLngAt(k))
                <= KmSq(radiusKm)
        picked == SelectSeq([k \in 1..(side * side) |-> k], inRadius)
    IN  [i \in 1..Len(picked) |->
            BlockId(blockLatAt(picked[i]), blockLngAt(picked[i]))]

\* getBlockCenter
getBlockCenter(bounds) ==
    [lat |-> (bounds.north + bounds.south) \div 2,
     lng |-> (bounds.east + bounds.west) \div 2]

\* Managers constructed with an explicit blockSize and with unloadDistance
\* >= loadRadius: new DataManager({blockSize: 1}) and
\* new DataManager({blockSize: 1, loadRadius: 60, unloadDistance: 80}).
ExplicitOptionsSet ==
    { [blockSize |-> 1, loadRadius |-> 0, unloadDistance |-> 0],
      [blockSize |-> 1, loadRadius |-> 600, unloadDistance |-> 800] }

\* getBlocksInRadius tabulated once for every manager and position of the
\* model (a scan visits (2 * blocksPerSide + 1)^2 grid points).
BlocksInRadiusTable ==
    { <<o, p, getBlocksInRadius(BlockSizeOf(o), p[1], p[2], LoadRadiusOf(o))>> :
        o \in OptionsSet \cup ExplicitOptionsSet, p \in Positions }

\* this.getBlocksInRadius(latitude, longitude, this.loadRadius)
blocksInLoadRadius(latitude, longitude) ==
    (CHOOSE r \in BlocksInRadiusTable :
        r[1] = options /\ r[2] = <<latitude, longitude>>)[3]

\* The for loop of loadBlocks: parse each id, generate, cache.set, push.
RECURSIVE LoadEach(_, _, _, _, _)
LoadEach(o, blockIds, c, ref, loadedBlocks) ==
    IF blockIds = <<>>
    THEN [cache |-> c, loadedBlocks |-> loadedBlocks, nextRef |-> ref]
    ELSE LET id == Head(blockIds)
             blockLat == parseFloat(id[2])
             blockLng == parseFloat(id[3])
             block == generateBlock(o, blockLat, blockLng, ref)
         IN  LoadEach(o, Tail(blockIds), CacheSet(c, block), ref + 1,
                      Append(loadedBlocks, block))

\* Mutant of loadBlocks: the blocks are generated and reported, but never
\* put into the cache.
loadBlocksWithoutCacheSet(o, c, ref, blockIds) ==
    [LoadEach(o, blockIds, c, ref, <<>>) EXCEPT !.cache = c]

\* Mutant of loadBlocks: the first generated block is missing from the
\* event.
loadBlocksDroppingFirst(o, c, ref, blockIds) ==
    LET r == LoadEach(o, blockIds, c, ref, <<>>)
    IN  [r EXCEPT !.loadedBlocks = Tail(r.loadedBlocks)]

\* loadBlocks up to its emitDataChange: the cache and the event's blocks.
loadBlocks(o, c, ref, blockIds) == LoadEach(o, blockIds, c, ref, <<>>)

\* The for loop of unloadBlocks.
RECURSIVE UnloadEach(_, _, _)
UnloadEach(blockIds, c, unloadedBlocks) ==
    IF blockIds = <<>>
    THEN [cache |-> c, unloadedBlocks |-> unloadedBlocks]
    ELSE LET id == Head(blockIds)
             block == CacheGet(c, id)
         IN  IF block # Null
             THEN UnloadEach(Tail(blockIds), CacheDelete(c, id),
                             Append(unloadedBlocks, block))
             ELSE UnloadEach(Tail(blockIds), c, unloadedBlocks)

\* Mutant of unloadBlocks: the blocks are reported but stay in the cache.
unloadBlocksWithoutDelete(c, blockIds) ==
    [UnloadEach(blockIds, c, <<>>) EXCEPT !.cache = c]

\* unloadBlocks up to its emitDataChange.
unloadBlocks(c, blockIds) == UnloadEach(blockIds, c, <<>>)

\* Mutant of IsDistant: the distance is taken to the south-west corner of
\* the bounds instead of their centre.
IsDistantFromCorner(block, latitude, longitude, limit) ==
    distanceBetweenCoords(latitude, longitude,
                          block.bounds.south, block.bounds.west)
        > KmSq(limit)

\* The filter of updateDronePosition that picks the blocks to unload.
IsDistant(block, latitude, longitude, limit) ==
    LET blockCenter == getBlockCenter(block.bounds)
    IN  distanceBetweenCoords(latitude, longitude,
                              blockCenter.lat, blockCenter.lng)
            > KmSq(limit)

\* Mutant of blocksToUnload: the limit is read as metres, not kilometres.
blocksToUnloadLimitInMetres(c, latitude, longitude, limit) ==
    SelectSeq(CacheGetAll(c),
              LAMBDA block : IsDistant(block, latitude, longitude,
                                       1000 * limit))

blocksToUnload(c, latitude, longitude, limit) ==
    SelectSeq(CacheGetAll(c),
              LAMBDA block : IsDistant(block, latitude, longitude, limit))

\* Mutant of IsDebounced: only an unchanged position is skipped.
IsDebouncedSamePositionOnly(last, latitude, longitude) ==
    /\ last # Null
    /\ last.lat = latitude
    /\ last.lng = longitude

\* Mutant of IsDebounced: the threshold is taken as 1 km.
IsDebouncedWithinOneKm(last, latitude, longitude) ==
    /\ last # Null
    /\ distanceBetweenCoords(last.lat, last.lng, latitude, longitude)
           < KmSq(10 * MovementThreshold)

\* The debounce test of updateDronePosition.
IsDebounced(last, latitude, longitude) ==
    /\ last # Null
    /\ distanceBetweenCoords(last.lat, last.lng, latitude, longitude)
           < KmSq(MovementThreshold)

----------------------------------------------------------------------------
(* The state machine.  updateDronePosition is synchronous; it is cut only  *)
(* where it hands control to a listener.  A frame of `stack` is a call     *)
(* stopped inside the forEach of emitDataChange, about to invoke           *)
(* listeners[idx + 1].                                                     *)

NoCall ==
    [kind |-> "none", lat |-> 0, lng |-> 0, cacheBefore |-> <<>>,
     baselineBefore |-> Null, inserted |-> <<>>, removed |-> <<>>,
     returned |-> FALSE, listenersBefore |-> <<>>, escaped |-> FALSE,
     op |-> "none", listener |-> "none"]

\* No closure has been returned and none called.  For each listener:
\* returned, the number of closures onDataChange has returned for it;
\* registeredBy, the number of the onDataChange call that put it into the
\* Set where it is now (0 when it is not in it).
NoHandles ==
    [returned |-> [listener \in Listeners |-> 0],
     registeredBy |-> [listener \in Listeners |-> 0],
     called |-> [listener |-> "none", serial |-> 0, stale |-> FALSE]]

\* No generator of its own, no call of a pure function and no layer.
AsideInit ==
    /\ generators = <<>>
    /\ now = 0
    /\ results = <<>>
    /\ measured = <<>>
    /\ itemMeshes = <<>>
    /\ itemData = <<>>
    /\ handles = NoHandles

Init ==
    /\ options \in OptionsSet
    /\ cache = <<>>
    /\ listeners = <<>>
    /\ lastDronePosition = Null
    /\ nextRef = 0
    /\ closures = {}
    /\ stack = <<>>
    /\ call = NoCall
    /\ log = <<>>
    /\ removedBy = [listener \in Listeners |-> "nothing"]
    /\ emitted = [kept |-> FALSE, events |-> <<>>]
    /\ AsideInit

\* Mutant of Frame: the two event types are exchanged.
FrameWithTypesExchanged(phase, type, blocks, latitude, longitude) ==
    [phase |-> phase,
     event |-> [type |-> IF type = "load" THEN "unload" ELSE "load",
                blocks |-> blocks],
     idx |-> 0, lat |-> latitude, lng |-> longitude]

Frame(phase, type, blocks, latitude, longitude) ==
    [phase |-> phase, event |-> [type |-> type, blocks |-> blocks],
     idx |-> 0, lat |-> latitude, lng |-> longitude]

\* The history em of emitted events with one more event: each tile of the
\* event is entered with the type of the event.
Emit(em, type, blocks) ==
    IF em.kept
    THEN [em EXCEPT !.events =
             @ \o [i \in 1..Len(blocks) |->
                     [type |-> type, id |-> blocks[i].id,
                      ref |-> blocks[i].ref]]]
    ELSE em

\* updateDronePosition from "Unload distant blocks" to its end, with the
\* cache c the load phase left and the history em of the events emitted so
\* far: either it stops at the first listener of the "unload" event or it
\* returns.
UnloadPhase(c, latitude, longitude, rec, em) ==
    LET distant == blocksToUnload(c, latitude, longitude, unloadDistance)
        ids == [i \in 1..Len(distant) |-> distant[i].id]
        u == IF Len(distant) > 0
             THEN unloadBlocks(c, ids)
             ELSE [cache |-> c, unloadedBlocks |-> <<>>]
    IN  /\ cache' = u.cache
        /\ emitted' = Emit(em, "unload", u.unloadedBlocks)
        /\ IF Len(u.unloadedBlocks) > 0 /\ Len(listeners) > 0
           THEN /\ stack' = <<Frame("unload", "unload", u.unloadedBlocks,
                                    latitude, longitude)>>
                /\ call' = [rec EXCEPT !.removed = u.unloadedBlocks]
           ELSE /\ stack' = <<>>
                /\ call' = [rec EXCEPT !.removed = u.unloadedBlocks,
                                       !.returned = TRUE]

\* updateDronePosition(latitude, longitude), up to the first listener it
\* invokes (or to its return when it invokes none).
UpdateDronePosition(latitude, longitude) ==
    /\ stack = <<>>
    /\ log' = <<>>
    /\ UNCHANGED <<options, listeners, closures, removedBy>>
    /\ LET rec == [kind |-> "processed", lat |-> latitude, lng |-> longitude,
                   cacheBefore |-> cache,
                   baselineBefore |-> lastDronePosition,
                   inserted |-> <<>>, removed |-> <<>>, returned |-> FALSE,
                   listenersBefore |-> listeners, escaped |-> FALSE,
                   op |-> "updateDronePosition", listener |-> "none"]
       IN  IF IsDebounced(lastDronePosition, latitude, longitude)
           THEN /\ call' = [rec EXCEPT !.kind = "debounced",
                                       !.returned = TRUE]
                /\ UNCHANGED <<cache, lastDronePosition, nextRef, stack,
                               emitted>>
           ELSE LET blocksToLoad == blocksInLoadRadius(latitude, longitude)
                    newBlocksToLoad ==
                        SelectSeq(blocksToLoad,
                                  LAMBDA id : ~CacheHas(cache, id))
                    l == loadBlocks(options, cache, nextRef, newBlocksToLoad)
                    loaded == [rec EXCEPT !.inserted = l.loadedBlocks]
                    em == Emit(emitted, "load", l.loadedBlocks)
                IN  /\ nextRef + Len(newBlocksToLoad) <= MaxBlocks
                    /\ lastDronePosition' =
                           [lat |-> latitude, lng |-> longitude]
                    /\ IF Len(newBlocksToLoad) > 0
                       THEN /\ nextRef' = l.nextRef
                            /\ IF Len(listeners) > 0
                               THEN /\ cache' = l.cache
                                    /\ stack' =
                                         <<Frame("load", "load",
                                                 l.loadedBlocks,
                                                 latitude, longitude)>>
                                    /\ call' = loaded
                                    /\ emitted' = em
                               ELSE UnloadPhase(l.cache, latitude, longitude,
                                                loaded, em)
                       ELSE /\ nextRef' = nextRef
                            /\ UnloadPhase(cache, latitude, longitude, rec,
                                           emitted)

\* Mutant of ListenerAt: the Set is walked from its last entry.
ListenerAtFromEnd(ls, idx) == ls[Len(ls) - idx]

\* Set.forEach visits the entries in insertion order: the entry it visits
\* once idx entries have been visited.
ListenerAt(ls, idx) == ls[idx + 1]

\* Mutant of ErrorEscapes: listener(event) is called outside any try.
ErrorEscapesWithoutCatch(threw) == threw

\* try { listener(event) } catch (error) { console.error(...) }: whether
\* an exception of the listener leaves the callback of the forEach.
ErrorEscapes(threw) == FALSE

\* One turn of the forEach of emitDataChange: the next listener is invoked
\* with the event, and returns or throws; after the last one the call goes
\* on to its end.  An exception that left the callback would end the
\* forEach, emitDataChange and updateDronePosition at once.
InvokeListener(threw) ==
    /\ stack # <<>>
    /\ LET f == stack[1]
           listener == ListenerAt(listeners, f.idx)
       IN  /\ log' = Append(log, [listener |-> listener,
                                  type |-> f.event.type,
                                  blocks |-> f.event.blocks,
                                  cache |-> cache,
                                  threw |-> threw])
           /\ IF ErrorEscapes(threw)
              THEN /\ stack' = <<>>
                   /\ call' = [call EXCEPT !.returned = TRUE,
                                           !.escaped = TRUE]
                   /\ UNCHANGED <<cache, emitted>>
              ELSE IF f.idx + 1 < Len(listeners)
              THEN /\ stack' = <<[f EXCEPT !.idx = f.idx + 1]>>
                   /\ UNCHANGED <<cache, call, emitted>>
              ELSE IF f.phase = "load"
                   THEN UnloadPhase(cache, f.lat, f.lng, call, emitted)
                   ELSE /\ stack' = <<>>
                        /\ call' = [call EXCEPT !.returned = TRUE]
                        /\ UNCHANGED <<cache, emitted>>
    /\ UNCHANGED <<options, listeners, lastDronePosition, nextRef, closures,
                   removedBy>>

\* The record `call` keeps of an operation other than updateDronePosition.
Operation(op, listener) ==
    [NoCall EXCEPT !.op = op, !.listener = listener,
                   !.cacheBefore = cache,
                   !.baselineBefore = lastDronePosition,
                   !.listenersBefore = listeners]

\* Mutant of ListenersAdd: the listeners are kept in an array.
ListenersAddAgain(ls, listener) == Append(ls, listener)

\* Set.add on the listener Set: an entry already present keeps its place.
ListenersAdd(ls, listener) ==
    IF \E i \in 1..Len(ls) : ls[i] = listener
    THEN ls
    ELSE Append(ls, listener)

\* Mutant of ListenersDelete: the oldest entry is deleted, whichever it is.
ListenersDeleteOldest(ls, listener) ==
    IF ls = <<>> THEN ls ELSE Tail(ls)

\* Set.delete on the listener Set.
ListenersDelete(ls, listener) == SelectSeq(ls, LAMBDA x : x # listener)

\* Mutant of ListenersClear: the Set is left as it is.
ListenersClearSkipped(ls) == ls

\* Set.clear on the listener Set.
ListenersClear(ls) == <<>>

\* onDataChange(listener): Set.add, and the closure it returns.
OnDataChange(listener) ==
    /\ stack = <<>>
    /\ listeners' = ListenersAdd(listeners, listener)
    /\ closures' = closures \cup {listener}
    /\ removedBy' = [removedBy EXCEPT ![listener] = "nothing"]
    /\ call' = Operation("onDataChange", listener)
    /\ log' = <<>>
    /\ UNCHANGED <<options, cache, lastDronePosition, nextRef, stack,
                   emitted>>

\* The closure returned by onDataChange(listener): Set.delete.
Unsubscribe(listener) ==
    /\ stack = <<>>
    /\ listener \in closures
    /\ listeners' = ListenersDelete(listeners, listener)
    /\ removedBy' = IF listener \in {listeners[i] : i \in 1..Len(listeners)}
                    THEN [removedBy EXCEPT ![listener] = "unsubscribe"]
                    ELSE removedBy
    /\ call' = Operation("unsubscribe", listener)
    /\ log' = <<>>
    /\ UNCHANGED <<options, cache, lastDronePosition, nextRef, closures,
                   stack, emitted>>

\* dispose()
Dispose ==
    /\ stack = <<>>
    /\ cache' = <<>>
    /\ listeners' = ListenersClear(listeners)
    /\ removedBy' = [listener \in Listeners |->
                        IF listener \in {listeners[i] : i \in 1..Len(listeners)}
                        THEN "dispose"
                        ELSE removedBy[listener]]
    /\ call' = Operation("dispose", "none")
    /\ log' = <<>>
    /\ UNCHANGED <<options, lastDronePosition, nextRef, closures, stack,
                   emitted>>

Next ==
    \/ (\E p \in Positions : UpdateDronePosition(p[1], p[2]))
         /\ UNCHANGED aside
    \/ (\E threw \in BOOLEAN : InvokeListener(threw)) /\ UNCHANGED aside
    \/ (\E listener \in Listeners : OnDataChange(listener))
         /\ UNCHANGED aside
    \/ (\E listener \in Listeners : Unsubscribe(listener))
         /\ UNCHANGED aside
    \/ Dispose /\ UNCHANGED aside

Spec == Init /\ [][Next]_vars

\* Sequences of updateDronePosition calls on a manager that is not disposed,
\* with the history of the emitted events kept; one listener subscribes at
\* some point and stays.
InitRecorded ==
    /\ options \in OptionsSet
    /\ cache = <<>>
    /\ listeners = <<>>
    /\ lastDronePosition = Null
    /\ nextRef = 0
    /\ closures = {}
    /\ stack = <<>>
    /\ call = NoCall
    /\ log = <<>>
    /\ removedBy = [listener \in Listeners |-> "nothing"]
    /\ emitted = [kept |-> TRUE, events |-> <<>>]
    /\ AsideInit

NextRecorded ==
    \/ (\E p \in Positions : UpdateDronePosition(p[1], p[2]))
         /\ UNCHANGED aside
    \/ (\E threw \in BOOLEAN : InvokeListener(threw)) /\ UNCHANGED aside
    \/ OnDataChange("L1") /\ UNCHANGED aside

SpecRecorded == InitRecorded /\ [][NextRecorded]_vars

InitExplicit ==
    /\ options \in ExplicitOptionsSet
    /\ cache = <<>>
    /\ listeners = <<>>
    /\ lastDronePosition = Null
    /\ nextRef = 0
    /\ closures = {}
    /\ stack = <<>>
    /\ call = NoCall
    /\ log = <<>>
    /\ removedBy = [listener \in Listeners |-> "nothing"]
    /\ emitted = [kept |-> FALSE, events |-> <<>>]
    /\ AsideInit

SpecExplicit == InitExplicit /\ [][Next]_vars

----------------------------------------------------------------------------
(* Listeners that act on the manager from inside a notification: one that  *)
(* calls an unsubscribe closure, and one that calls updateDronePosition.   *)

\* The positions of the calls, outer and nested.
DeliveryPositions == { <<0, 0>>, <<0, 200>>, <<0, 10000>> }

\* The configurations with unloadDistance >= loadRadius.
ValidOptionsSet ==
    { o \in OptionsSet : UnloadDistanceOf(o) >= LoadRadiusOf(o) }

\* The place of listener in the Set ls, 0 when it is not in it.
PlaceOf(ls, listener) ==
    IF \E i \in 1..Len(ls) : ls[i] = listener
    THEN CHOOSE i \in 1..Len(ls) : ls[i] = listener
    ELSE 0

\* Mutant of ForEachNext: the walk counts places of the Set and takes no
\* notice of a deletion.
ForEachNextByPlace(idx, ls, deleted) == idx + 1

\* Set.forEach after the callback of the entry at place idx + 1 has
\* deleted an entry (or none): the number of entries of the Set that are
\* behind the walk.  A deleted entry at or before the current place is
\* taken out from behind the walk; the entries after it are still visited.
ForEachNext(idx, ls, deleted) ==
    IF PlaceOf(ls, deleted) # 0 /\ PlaceOf(ls, deleted) <= idx + 1
    THEN idx
    ELSE idx + 1

\* updateDronePosition from "Unload distant blocks" to its end, as
\* UnloadPhase, when the Set of listeners is ls.
UnloadPhaseWith(ls, c, latitude, longitude, rec, em) ==
    LET distant == blocksToUnload(c, latitude, longitude, unloadDistance)
        ids == [i \in 1..Len(distant) |-> distant[i].id]
        u == IF Len(distant) > 0
             THEN unloadBlocks(c, ids)
             ELSE [cache |-> c, unloadedBlocks |-> <<>>]
    IN  /\ cache' = u.cache
        /\ emitted' = Emit(em, "unload", u.unloadedBlocks)
        /\ IF Len(u.unloadedBlocks) > 0 /\ Len(ls) > 0
           THEN /\ stack' = <<Frame("unload", "unload", u.unloadedBlocks,
                                    latitude, longitude)>>
                /\ call' = [rec EXCEPT !.removed = u.unloadedBlocks]
           ELSE /\ stack' = <<>>
                /\ call' = [rec EXCEPT !.removed = u.unloadedBlocks,
                                       !.returned = TRUE]

\* The forEach of frame f once a callback has returned, with idx entries
\* of the Set ls behind the walk and the cache c: the next entry is due,
\* or the forEach is over and updateDronePosition goes on to its end.
AfterCallback(f, idx, ls, c, em) ==
    IF idx < Len(ls)
    THEN /\ stack' = <<[f EXCEPT !.idx = idx]>>
         /\ cache' = c
         /\ emitted' = em
         /\ call' = call
    ELSE IF f.phase = "load"
    THEN UnloadPhaseWith(ls, c, f.lat, f.lng, call, em)
    ELSE /\ stack' = <<>>
         /\ cache' = c
         /\ emitted' = em
         /\ call' = [call EXCEPT !.returned = TRUE]

\* One turn of the forEach in which the listener calls the closure that
\* onDataChange returned for `unsubscribed` (itself or another listener),
\* and returns.
InvokeListenerUnsubscribing(unsubscribed) ==
    /\ stack # <<>>
    /\ unsubscribed \in closures
    /\ LET f == stack[1]
           listener == ListenerAt(listeners, f.idx)
           ls == ListenersDelete(listeners, unsubscribed)
       IN  /\ log' = Append(log, [listener |-> listener,
                                  type |-> f.event.type,
                                  blocks |-> f.event.blocks,
                                  cache |-> cache,
                                  threw |-> FALSE,
                                  unsubscribed |-> unsubscribed])
           /\ listeners' = ls
           /\ removedBy' =
                 IF PlaceOf(listeners, unsubscribed) # 0
                 THEN [removedBy EXCEPT ![unsubscribed] = "unsubscribe"]
                 ELSE removedBy
           /\ AfterCallback(f, ForEachNext(f.idx, listeners, unsubscribed),
                            ls, cache, emitted)
    /\ UNCHANGED <<options, lastDronePosition, nextRef, closures>>

\* The end of a nested call that loaded l and unloaded u: what it leaves
\* in the manager.
NestedEnd(l, u, em, latitude, longitude) ==
    [cache |-> u.cache,
     baseline |-> [lat |-> latitude, lng |-> longitude],
     nextRef |-> l.nextRef,
     emitted |-> Emit(Emit(em, "load", l.loadedBlocks),
                      "unload", u.unloadedBlocks),
     processed |-> TRUE]

\* A nested call from "Unload distant blocks" on, after it loaded l.
NestedUnload(l, em, latitude, longitude) ==
    LET distant == blocksToUnload(l.cache, latitude, longitude,
                                  unloadDistance)
        ids == [i \in 1..Len(distant) |-> distant[i].id]
    IN  NestedEnd(l,
                  IF Len(distant) > 0
                  THEN unloadBlocks(l.cache, ids)
                  ELSE [cache |-> l.cache, unloadedBlocks |-> <<>>],
                  em, latitude, longitude)

\* updateDronePosition(latitude, longitude) called while the manager is in
\* the cache c with the baseline base, run to its end; the listeners it
\* notifies return without acting on the manager.
NestedUpdate(c, base, ref, em, latitude, longitude) ==
    IF IsDebounced(base, latitude, longitude)
    THEN [cache |-> c, baseline |-> base, nextRef |-> ref, emitted |-> em,
          processed |-> FALSE]
    ELSE LET blocksToLoad == blocksInLoadRadius(latitude, longitude)
             newBlocksToLoad ==
                 SelectSeq(blocksToLoad, LAMBDA id : ~CacheHas(c, id))
         IN  NestedUnload(IF Len(newBlocksToLoad) > 0
                          THEN loadBlocks(options, c, ref, newBlocksToLoad)
                          ELSE [cache |-> c, nextRef |-> ref,
                                loadedBlocks |-> <<>>],
                          em, latitude, longitude)

\* One turn of the forEach in which the listener calls
\* updateDronePosition(latitude, longitude) and returns when that call has
\* returned; the forEach of the outer call then goes on.
InvokeListenerUpdating(latitude, longitude) ==
    /\ stack # <<>>
    /\ LET f == stack[1]
           listener == ListenerAt(listeners, f.idx)
       IN  \E n \in { NestedUpdate(cache, lastDronePosition, nextRef,
                                    emitted, latitude, longitude) } :
           /\ n.nextRef <= MaxBlocks
           /\ log' = Append(log, [listener |-> listener,
                                  type |-> f.event.type,
                                  blocks |-> f.event.blocks,
                                  cache |-> cache,
                                  threw |-> FALSE,
                                  nested |-> n.processed])
           /\ lastDronePosition' = n.baseline
           /\ nextRef' = n.nextRef
           /\ AfterCallback(f, f.idx + 1, listeners, n.cache, n.emitted)
    /\ UNCHANGED <<options, listeners, closures, removedBy>>

InitDelivery ==
    /\ options \in ValidOptionsSet
    /\ cache = <<>>
    /\ listeners = <<>>
    /\ lastDronePosition = Null
    /\ nextRef = 0
    /\ closures = {}
    /\ stack = <<>>
    /\ call = NoCall
    /\ log = <<>>
    /\ removedBy = [listener \in Listeners |-> "nothing"]
    /\ emitted = [kept |-> FALSE, events |-> <<>>]
    /\ AsideInit

NextDelivery ==
    \/ (\E p \in DeliveryPositions : UpdateDronePosition(p[1], p[2]))
         /\ UNCHANGED aside
    \/ (\E threw \in BOOLEAN : InvokeListener(threw)) /\ UNCHANGED aside
    \/ (\E unsubscribed \in Listeners :
            InvokeListenerUnsubscribing(unsubscribed))
         /\ UNCHANGED aside
    \/ (\E p \in DeliveryPositions : InvokeListenerUpdating(p[1], p[2]))
         /\ UNCHANGED aside
    \/ (\E listener \in Listeners : OnDataChange(listener))
         /\ UNCHANGED aside

SpecDelivery == InitDelivery /\ [][NextDelivery]_vars

----------------------------------------------------------------------------
(* The closures onDataChange returns, told apart: each call returns a new  *)
(* closure, and a closure can be called whenever it has been returned.     *)

MaxClosures == 3

\* The positions of the calls.
ClosurePositions == { <<0, 0>>, <<0, 10000>> }

\* onDataChange(listener), and the closure it returns: the next one for
\* this listener.
Subscribe(listener) ==
    /\ handles.returned[listener] < MaxClosures
    /\ OnDataChange(listener)
    /\ handles' =
          [handles EXCEPT
              !.returned[listener] = @ + 1,
              !.registeredBy[listener] =
                  IF PlaceOf(listeners, listener) # 0
                  THEN @
                  ELSE handles.returned[listener] + 1]
    /\ UNCHANGED <<generators, now, results, measured, itemMeshes, itemData>>

\* A call of the closure that the serial-th onDataChange(listener)
\* returned; it is stale when a later onDataChange put the listener into
\* the Set.
CallClosure(listener, serial) ==
    /\ serial \in 1..handles.returned[listener]
    /\ Unsubscribe(listener)
    /\ handles' =
          [handles EXCEPT
              !.registeredBy[listener] = 0,
              !.called = [listener |-> listener, serial |-> serial,
                          stale |-> serial
                                      < handles.registeredBy[listener]]]
    /\ UNCHANGED <<generators, now, results, measured, itemMeshes, itemData>>

InitClosures ==
    /\ options = [blockSize |-> 0, loadRadius |-> 0, unloadDistance |-> 0]
    /\ cache = <<>>
    /\ listeners = <<>>
    /\ lastDronePosition = Null
    /\ nextRef = 0
    /\ closures = {}
    /\ stack = <<>>
    /\ call = NoCall
    /\ log = <<>>
    /\ removedBy = [listener \in Listeners |-> "nothing"]
    /\ emitted = [kept |-> FALSE, events |-> <<>>]
    /\ AsideInit

NextClosures ==
    \/ (\E p \in ClosurePositions : UpdateDronePosition(p[1], p[2]))
         /\ UNCHANGED aside
    \/ (\E threw \in BOOLEAN : InvokeListener(threw)) /\ UNCHANGED aside
    \/ \E listener \in Listeners : Subscribe(listener)
    \/ \E listener \in Listeners, serial \in 1..MaxClosures :
          CallClosure(listener, serial)

SpecClosures == InitClosures /\ [][NextClosures]_vars

----------------------------------------------------------------------------
(* Viewer3DContextLayer: the layer keeps a mesh and the item data for each *)
(* contextual item, by item id, and follows the notifications of the       *)
(* manager.  A layer is the record of the keys of its two Maps.            *)

\* The positions of the calls while the layer listens.
ViewerPositions == { <<0, 0>>, <<0, 200>>, <<0, 10000>>, <<5000, 0>> }

\* The characters of a word of an id.
WordChars(word) ==
    IF word = "block" THEN <<"b", "l", "o", "c", "k">>
    ELSE <<"i", "t", "e", "m">>

DigitChars == <<"0", "1", "2", "3", "4", "5", "6", "7", "8", "9">>

\* `${n}` of a natural number n, as characters.
RECURSIVE DecimalChars(_)
DecimalChars(n) ==
    IF n < 10 THEN <<DigitChars[n + 1]>>
    ELSE DecimalChars(n \div 10) \o <<DigitChars[(n % 10) + 1]>>

\* The decimals of f / 10^width, without the zeros at the end.
RECURSIVE FractionChars(_, _)
FractionChars(f, width) ==
    IF f = 0 THEN <<>>
    ELSE LET unit == <<1, 10, 100, 1000>>[width]
         IN  <<DigitChars[(f \div unit) + 1]>>
                 \o FractionChars(f % unit, width - 1)

\* `${n}` of a coordinate, as characters: "0", "1", "-31", "0.5".
NumberChars(n) ==
    (IF n.neg THEN <<"-">> ELSE <<>>)
        \o DecimalChars(n.digits \div 10000)
        \o (IF n.digits % 10000 = 0 THEN <<>>
            ELSE <<".">> \o FractionChars(n.digits % 10000, 4))

\* The string of a block id or an item id, as characters.
IdChars(id) ==
    WordChars(id[1]) \o <<"_">> \o NumberChars(id[2])
        \o <<"_">> \o NumberChars(id[3])
        \o (IF Len(id) = 4 THEN <<"_">> \o DecimalChars(id[4]) ELSE <<>>)

\* String.prototype.includes
Includes(string, searched) ==
    \E k \in 1..(Len(string) - Len(searched) + 1) :
        SubSeq(string, k, k + Len(searched) - 1) = searched

\* block.items of a block of the manager, by id: the generator numbers the
\* items of the tile from 0.
BlockItemIds(block) ==
    LET blockLat == parseFloat(block.id[2])
        blockLng == parseFloat(block.id[3])
    IN  [k \in 1..numItems(hashCoordinates(blockLat, blockLng)) |->
            ItemId(blockLat, blockLng, k - 1)]

\* Map.set of a key: a key already present keeps its place.
KeysSet(keys, key) ==
    IF \E i \in 1..Len(keys) : keys[i] = key THEN keys ELSE Append(keys, key)

\* Map.delete of a key.
KeysDelete(keys, key) == SelectSeq(keys, LAMBDA k : k # key)

\* addItemMesh; createItemMesh returns a mesh for each type the generator
\* produces.
addItemMesh(layer, itemId) ==
    IF \E i \in 1..Len(layer.itemMeshes) : layer.itemMeshes[i] = itemId
    THEN layer
    ELSE [itemMeshes |-> KeysSet(layer.itemMeshes, itemId),
          itemData |-> KeysSet(layer.itemData, itemId)]

\* removeItemMesh
removeItemMesh(layer, itemId) ==
    IF \E i \in 1..Len(layer.itemMeshes) : layer.itemMeshes[i] = itemId
    THEN [itemMeshes |-> KeysDelete(layer.itemMeshes, itemId),
          itemData |-> KeysDelete(layer.itemData, itemId)]
    ELSE layer

\* items.forEach((item) => this.addItemMesh(item, block))
RECURSIVE AddEach(_, _)
AddEach(layer, itemIds) ==
    IF itemIds = <<>> THEN layer
    ELSE AddEach(addItemMesh(layer, Head(itemIds)), Tail(itemIds))

\* itemsToRemove.forEach((itemId) => this.removeItemMesh(itemId))
RECURSIVE RemoveEach(_, _)
RemoveEach(layer, itemIds) ==
    IF itemIds = <<>> THEN layer
    ELSE RemoveEach(removeItemMesh(layer, Head(itemIds)), Tail(itemIds))

\* addBlockItems
addBlockItems(layer, block) == AddEach(layer, BlockItemIds(block))

\* removeBlockItems: the items whose id includes the id of the block.
removeBlockItems(layer, blockId) ==
    LET itemsToRemove ==
            SelectSeq(layer.itemMeshes,
                      LAMBDA itemId :
                          Includes(IdChars(itemId), IdChars(blockId)))
    IN  RemoveEach(layer, itemsToRemove)

\* handleDataChange: event.blocks.forEach of addBlockItems or of
\* removeBlockItems.
RECURSIVE handleDataChange(_, _, _)
handleDataChange(layer, type, blocks) ==
    IF blocks = <<>> THEN layer
    ELSE handleDataChange(
             IF type = "load" THEN addBlockItems(layer, Head(blocks))
             ELSE IF type = "unload"
             THEN removeBlockItems(layer, Head(blocks).id)
             ELSE layer,
             type, Tail(blocks))

\* One turn of the forEach of emitDataChange in which the listener is the
\* callback of the layer: (event) => this.handleDataChange(event).
HandleDataChange ==
    /\ InvokeListener(FALSE)
    /\ LET layer == handleDataChange(
                        [itemMeshes |-> itemMeshes, itemData |-> itemData],
                        stack[1].event.type, stack[1].event.blocks)
       IN  /\ itemMeshes' = layer.itemMeshes
           /\ itemData' = layer.itemData
    /\ UNCHANGED <<generators, now, results, measured, handles>>

\* A manager and a layer whose makeObject has subscribed it, before the
\* first call of updateDronePosition.
InitViewer ==
    /\ options \in ValidOptionsSet
    /\ cache = <<>>
    /\ listeners = <<"L1">>
    /\ lastDronePosition = Null
    /\ nextRef = 0
    /\ closures = {"L1"}
    /\ stack = <<>>
    /\ call = NoCall
    /\ log = <<>>
    /\ removedBy = [listener \in Listeners |-> "nothing"]
    /\ emitted = [kept |-> FALSE, events |-> <<>>]
    /\ AsideInit

NextViewer ==
    \/ (\E p \in ViewerPositions : UpdateDronePosition(p[1], p[2]))
         /\ UNCHANGED aside
    \/ HandleDataChange

SpecViewer == InitViewer /\ [][NextViewer]_vars

----------------------------------------------------------------------------
(* The generator on its own: two MockDataGenerator instances built with    *)
(* one configuration, and generateBlock calls on either of them.           *)

MaxCalls == 3

\* The state of the manager while only the generator is used.
ManagerIdle ==
    /\ options = [blockSize |-> 0, loadRadius |-> 0, unloadDistance |-> 0]
    /\ cache = <<>>
    /\ listeners = <<>>
    /\ lastDronePosition = Null
    /\ nextRef = 0
    /\ closures = {}
    /\ stack = <<>>
    /\ call = NoCall
    /\ log = <<>>
    /\ removedBy = [listener \in Listeners |-> "nothing"]
    /\ emitted = [kept |-> FALSE, events |-> <<>>]

InitFunctions ==
    /\ ManagerIdle
    /\ \E o \in GeneratorOptionsSet : generators = [g \in 1..2 |-> o]
    /\ now = 0
    /\ results = <<>>
    /\ measured = <<>>
    /\ itemMeshes = <<>>
    /\ itemData = <<>>
    /\ handles = NoHandles

\* generators[g].generateBlock(blockLat, blockLng); the clock may have
\* moved on since the call before.
GenerateBlock(g, blockLat, blockLng) ==
    /\ Len(results) < MaxCalls
    /\ \E tick \in 0..1 : now' = now + tick
    /\ results' = Append(results,
                         [generator |-> g,
                          blockLat |-> blockLat,
                          blockLng |-> blockLng,
                          block |-> DataBlock(generators[g], blockLat,
                                              blockLng, now')])
    /\ UNCHANGED <<manager, generators, measured, itemMeshes, itemData,
                   handles>>

NextFunctions ==
    \E g \in 1..2, c \in GeneratorCoordinates : GenerateBlock(g, c[1], c[2])

SpecFunctions == InitFunctions /\ [][NextFunctions]_vars

----------------------------------------------------------------------------
(* MercatorConverter.metersPerDegreeAtLatitude on its own.                 *)

MaxMeasured == 3

\* The latitudes metersPerDegreeAtLatitude is called with.
Latitudes == { -600000, 0, 100000, 450000, 840000 }

\* metersPerDegreeAtLatitude, in decametres.
metersPerDegreeAtLatitude(latitude) ==
    LET p1 == latLngToMeters(latitude, 0)
        p2 == latLngToMeters(latitude, 10000)
    IN  Abs(p2[1] - p1[1])

InitMercator ==
    /\ ManagerIdle
    /\ generators = <<>>
    /\ now = 0
    /\ results = <<>>
    /\ measured = <<>>
    /\ itemMeshes = <<>>
    /\ itemData = <<>>
    /\ handles = NoHandles

\* One call of metersPerDegreeAtLatitude, and what it returned.
MetersPerDegreeAtLatitude(latitude) ==
    /\ Len(measured) < MaxMeasured
    /\ measured' = Append(measured,
                          [latitude |-> latitude,
                           meters |-> metersPerDegreeAtLatitude(latitude)])
    /\ UNCHANGED <<manager, generators, now, results, itemMeshes, itemData,
                   handles>>

NextMercator ==
    \E latitude \in Latitudes : MetersPerDegreeAtLatitude(latitude)

SpecMercator == InitMercator /\ [][NextMercator]_vars

----------------------------------------------------------------------------
(* Vocabulary of the properties.                                           *)

Range(seq) == {seq[i] : i \in 1..Len(seq)}

\* getLoadedBlocks()
getLoadedBlocks == CacheGetAll(cache)

\* getBlock(id)
getBlock(id) == CacheGet(cache, id)

\* A call of updateDronePosition has just returned (no other operation of
\* the manager has run since).
Returned == call.kind # "none" /\ call.returned

Processed == call.kind = "processed"

\* Squared projected distance from the observer of the current call to a
\* point / to the centre of a block's bounds.
ObserverDistSq(lat, lng) ==
    distanceBetweenCoords(call.lat, call.lng, lat, lng)

CenterDistSq(block) ==
    ObserverDistSq((block.bounds.north + block.bounds.south) \div 2,
                   (block.bounds.east + block.bounds.west) \div 2)

\* The grid of the manager around the origin, <<lat, lng>>.
GridPoints ==
    { <<i * blockSize * 10000, j * blockSize * 10000>> :
        i \in -GridSpan..GridSpan, j \in -GridSpan..GridSpan }

\* One tile diagonal, blockSize * sqrt(2) km, in decametres (rounded up).
TileDiagonal == (14143 * blockSize) \div 100 + 1

\* The tiles in the cache once the load phase of the current call is over.
AfterLoadPhase == Range(CacheGetAll(call.cacheBefore)) \cup Range(call.inserted)

\* Invocations of the current call: of a listener with a type; of a type.
Invocations(listener, type) ==
    {i \in 1..Len(log) : log[i].listener = listener /\ log[i].type = type}

Notified(type) == {i \in 1..Len(log) : log[i].type = type}

\* The tiles named by the call's notifications of a type.
Payload(type) == UNION {Range(log[i].blocks) : i \in Notified(type)}

----------------------------------------------------------------------------
\* C1: no tile key appears twice among the tiles getLoadedBlocks returns,
\* and every resident tile is stored under the key equal to its own id.
C1_CacheKeyUniqueness ==
    /\ \A i, j \in 1..Len(getLoadedBlocks) :
          i # j => getLoadedBlocks[i].id # getLoadedBlocks[j].id
    /\ \A i \in 1..Len(cache) : cache[i].key = cache[i].block.id

\* Two tiles are resident after a call that found a tile already resident.
C1_Witness ==
    /\ Returned /\ Processed
    /\ Len(call.cacheBefore) > 0
    /\ Len(call.inserted) > 0
    /\ Len(getLoadedBlocks) >= 2

\* C2: a call within the movement threshold of the last processed position
\* is a no-op: no listener is invoked, the cache and the baseline stay.
C2_DebouncedCallIsNoOp ==
    (/\ call.kind # "none"
     /\ call.baselineBefore # Null
     /\ distanceBetweenCoords(call.baselineBefore.lat,
                              call.baselineBefore.lng, call.lat, call.lng)
            < KmSq(MovementThreshold))
    => /\ call.returned
       /\ stack = <<>>
       /\ log = <<>>
       /\ cache = call.cacheBefore
       /\ lastDronePosition = call.baselineBefore

\* A call 56 m from the baseline, with tiles resident and a listener.
C2_Witness ==
    /\ call.kind = "debounced"
    /\ <<call.lat, call.lng>>
           # <<call.baselineBefore.lat, call.baselineBefore.lng>>
    /\ Len(cache) > 0
    /\ Len(listeners) > 0

\* C3: a call that is not debounced (the first one, or one at least the
\* threshold away from the baseline) makes its position the new baseline,
\* whether or not it loaded or unloaded anything.
C3_ProcessedCallSetsBaseline ==
    (/\ call.kind # "none"
     /\ \/ call.baselineBefore = Null
        \/ distanceBetweenCoords(call.baselineBefore.lat,
                                 call.baselineBefore.lng, call.lat, call.lng)
               >= KmSq(MovementThreshold))
    => /\ call.kind = "processed"
       /\ lastDronePosition = [lat |-> call.lat, lng |-> call.lng]

\* A processed call, 111 m from the baseline, that changed no tile.
C3_Witness ==
    /\ Returned /\ Processed
    /\ call.baselineBefore # Null
    /\ call.inserted = <<>>
    /\ call.removed = <<>>
    /\ Len(cache) > 0

\* C4 (as claimed): after a processed call returns, every grid tile whose
\* grid coordinate is within loadRadius of the observer by projected
\* distance is resident, and no tile that was resident before the call has
\* been generated or inserted again.
C4_TilesInLoadRadiusResident ==
    (Returned /\ Processed)
    => /\ \A g \in GridPoints :
             ObserverDistSq(g[1], g[2]) <= KmSq(loadRadius)
                 => getBlock(BlockId(g[1], g[2])) # Null
       /\ \A b \in Range(CacheGetAll(call.cacheBefore)) :
             /\ \A n \in Range(call.inserted) : n.id # b.id
             /\ getBlock(b.id) \in {Null, b}

\* C5: in a processed call a tile is evicted exactly if its centre is
\* farther than unloadDistance from the observer; afterwards no resident
\* tile is.
C5_EvictedIffBeyondUnloadDistance ==
    (Returned /\ Processed)
    => /\ Range(getLoadedBlocks) \subseteq AfterLoadPhase
       /\ \A b \in AfterLoadPhase :
             (b \notin Range(getLoadedBlocks))
                 <=> CenterDistSq(b) > KmSq(unloadDistance)
       /\ Range(call.removed) = AfterLoadPhase \ Range(getLoadedBlocks)

\* A call that evicted one tile and kept another.
C5_Witness ==
    /\ Returned /\ Processed
    /\ Len(call.removed) > 0
    /\ \E b \in Range(CacheGetAll(call.cacheBefore)) :
          b \in Range(getLoadedBlocks)

\* C6 (as claimed): with unloadDistance >= loadRadius, after a processed
\* call every resident tile has its centre within loadRadius plus one tile
\* diagonal of the observer.
C6_WithinLoadRadiusPlusDiagonal ==
    (Returned /\ Processed /\ unloadDistance >= loadRadius)
    => \A b \in Range(getLoadedBlocks) :
          CenterDistSq(b) <= Sq(10 * loadRadius + TileDiagonal)

\* C6 (amended): after a processed call every resident tile has its centre
\* within unloadDistance of the observer, in every configuration; that is
\* within loadRadius plus one tile diagonal when unloadDistance is.
C6_WithinUnloadDistance ==
    (Returned /\ Processed)
    => \A b \in Range(getLoadedBlocks) :
          /\ CenterDistSq(b) <= KmSq(unloadDistance)
          /\ 10 * unloadDistance <= 10 * loadRadius + TileDiagonal
                => CenterDistSq(b) <= Sq(10 * loadRadius + TileDiagonal)

\* A tile stays resident farther away than loadRadius plus one diagonal.
C6_Witness ==
    /\ Returned /\ Processed
    /\ unloadDistance >= loadRadius
    /\ \E b \in Range(getLoadedBlocks) :
          CenterDistSq(b) > Sq(10 * loadRadius + TileDiagonal)

C8_LoadBeforeUnload ==
    /\ \A i \in Notified("load"), j \in Notified("unload") : i < j
    /\ (Returned /\ Len(call.inserted) > 0 /\ Len(call.removed) > 0)
          => \A listener \in Range(listeners) :
                \E i \in Invocations(listener, "load"),
                   j \in Invocations(listener, "unload") : i < j

\* Two listeners, each invoked with "load" and then with "unload".
C8_Witness ==
    /\ Returned
    /\ Len(listeners) = 2
    /\ Len(log) = 4
    /\ Len(call.inserted) > 0
    /\ Len(call.removed) > 0

\* C9: a call invokes each listener at most once with "load" and at most
\* once with "unload"; "load" is sent exactly if a tile was inserted and
\* names the inserted tiles, "unload" exactly if a tile was removed and
\* names the removed tiles; no event is empty.
C9_OneBatchPerCall ==
    (Returned /\ Processed /\ Len(listeners) > 0)
    => /\ \A listener \in Range(listeners) :
             /\ Cardinality(Invocations(listener, "load"))
                    = IF Len(call.inserted) > 0 THEN 1 ELSE 0
             /\ Cardinality(Invocations(listener, "unload"))
                    = IF Len(call.removed) > 0 THEN 1 ELSE 0
       /\ \A i \in 1..Len(log) :
             /\ log[i].listener \in Range(listeners)
             /\ log[i].type \in {"load", "unload"}
             /\ Len(log[i].blocks) > 0
             /\ Cardinality(Range(log[i].blocks)) = Len(log[i].blocks)
             /\ log[i].type = "load" => log[i].blocks = call.inserted
             /\ log[i].type = "unload" => log[i].blocks = call.removed
       /\ Payload("load") \cap Range(CacheGetAll(call.cacheBefore)) = {}
       /\ Payload("unload")
             \subseteq Range(CacheGetAll(call.cacheBefore)) \cup Payload("load")
       /\ Range(getLoadedBlocks)
             = (Range(CacheGetAll(call.cacheBefore)) \cup Payload("load"))
                   \ Payload("unload")

\* A call that inserted two tiles and removed one, with two listeners.
C9_Witness ==
    /\ Returned /\ Processed
    /\ Len(listeners) = 2
    /\ Len(call.inserted) >= 2
    /\ Len(call.removed) >= 1

InvokedWith(type) ==
    LET sent == SelectSeq(log, LAMBDA entry : entry.type = type)
    IN  [i \in 1..Len(sent) |-> sent[i].listener]

\* A listener threw while it handled a notification of the current call.
SomeListenerThrew == \E i \in 1..Len(log) : log[i].threw

\* C11: when a listener throws while it handles a notification, every other
\* registered listener is still invoked with that notification, and the
\* exception does not leave updateDronePosition.
C11_ThrowingListenerIsIsolated ==
    /\ ~call.escaped
    /\ \A i \in 1..Len(log) :
          (Returned /\ log[i].threw)
              => \A other \in Range(listeners) \ {log[i].listener} :
                    Invocations(other, log[i].type) # {}
    /\ \A i \in 1..Len(log) :
          (log[i].threw /\ stack = <<>>) => Returned

\* The first of two listeners threw on "load"; the second one was invoked
\* with "load" after it, and the call returned.
C11_Witness ==
    /\ Returned
    /\ Len(listeners) = 2
    /\ Len(log) >= 2
    /\ log[1].threw /\ log[1].listener = listeners[1]
    /\ log[2].type = log[1].type /\ log[2].listener = listeners[2]

\* C12: a listener that throws does not change the outcome of the call:
\* on return the cache holds the tiles resident before the call and the
\* tiles the load phase generated, less those farther than unloadDistance
\* (the eviction phase ran, and announced what it removed), the baseline is
\* the position of the call and the listener set is the one before it.
C12_ThrowLeavesOutcomeUnchanged ==
    (Returned /\ Processed /\ SomeListenerThrew)
    => /\ Range(getLoadedBlocks)
             = {b \in AfterLoadPhase : CenterDistSq(b) <= KmSq(unloadDistance)}
       /\ Range(call.removed)
             = {b \in AfterLoadPhase : CenterDistSq(b) > KmSq(unloadDistance)}
       /\ call.removed # <<>> => InvokedWith("unload") = listeners
       /\ lastDronePosition = [lat |-> call.lat, lng |-> call.lng]
       /\ listeners = call.listenersBefore

\* A listener threw on "load" in a call that then evicted a tile.
C12_Witness ==
    /\ Returned /\ Processed
    /\ \E i \in Notified("load") : log[i].threw
    /\ Len(call.removed) > 0
    /\ Len(getLoadedBlocks) > 0

\* C13: each notification is delivered before the call returns, to every
\* registered listener exactly once, in the order of registration (the
\* insertion order of the Set); while a delivery is under way the listeners
\* invoked so far are a prefix of that order.
C13_EachListenerOnceInOrder ==
    /\ (Returned /\ Processed)
          => /\ InvokedWith("load")
                   = IF call.inserted # <<>> THEN listeners ELSE <<>>
             /\ InvokedWith("unload")
                   = IF call.removed # <<>> THEN listeners ELSE <<>>
    /\ stack # <<>>
          => InvokedWith(stack[1].event.type)
                = SubSeq(listeners, 1, stack[1].idx)

\* Two listeners, registered L2 first, were both invoked with "load" and
\* with "unload".
C13_Witness ==
    /\ Returned
    /\ listeners = <<"L2", "L1">>
    /\ InvokedWith("load") = <<"L2", "L1">>
    /\ InvokedWith("unload") = <<"L2", "L1">>

\* The place of a listener in a sequence of listeners (0: not in it).
PlaceIn(ls, listener) ==
    IF \E i \in 1..Len(ls) : ls[i] = listener
    THEN CHOOSE i \in 1..Len(ls) : ls[i] = listener
    ELSE 0

\* C14: the closure returned by onDataChange(listener) takes exactly that
\* listener out of the Set: the listener is no longer registered and gets
\* no notification while it stays so, the other listeners stay registered
\* in the same order, the cache and the baseline are untouched, and a call
\* of the closure for a listener that is not registered changes nothing.
C14_UnsubscribeRemovesExactlyThatListener ==
    /\ call.op = "unsubscribe"
          => /\ Range(listeners) = Range(call.listenersBefore) \ {call.listener}
             /\ \A i, j \in 1..Len(listeners) :
                   i < j => /\ listeners[i] # listeners[j]
                            /\ PlaceIn(call.listenersBefore, listeners[i])
                                  < PlaceIn(call.listenersBefore, listeners[j])
             /\ cache = call.cacheBefore
             /\ lastDronePosition = call.baselineBefore
             /\ stack = <<>> /\ log = <<>>
             /\ call.listener \notin Range(call.listenersBefore)
                   => listeners = call.listenersBefore
    /\ \A i \in 1..Len(log) : removedBy[log[i].listener] # "unsubscribe"

\* The first of two listeners has just been unsubscribed, with tiles
\* resident and a baseline set.
C14_Witness ==
    /\ call.op = "unsubscribe"
    /\ Len(call.listenersBefore) = 2
    /\ call.listener = call.listenersBefore[1]
    /\ listeners = <<call.listenersBefore[2]>>
    /\ Len(cache) > 0
    /\ lastDronePosition # Null

\* C15: after dispose() the cache is empty (getLoadedBlocks returns no
\* tile, getBlock finds none) and so is the listener Set; a listener that
\* dispose() removed is not invoked by a later call unless it is registered
\* again.
C15_DisposeClearsCacheAndListeners ==
    /\ call.op = "dispose"
          => /\ getLoadedBlocks = <<>>
             /\ \A g \in GridPoints : getBlock(BlockId(g[1], g[2])) = Null
             /\ \A b \in Range(CacheGetAll(call.cacheBefore)) :
                   getBlock(b.id) = Null
             /\ listeners = <<>>
    /\ \A i \in 1..Len(log) : removedBy[log[i].listener] # "dispose"

\* A call after dispose() notified a listener registered since, and not the
\* listener that dispose() removed.
C15_Witness ==
    /\ Returned
    /\ Len(log) > 0
    /\ \E listener \in Listeners :
          /\ removedBy[listener] = "dispose"
          /\ Invocations(listener, "load") = {}
          /\ Invocations(listener, "unload") = {}

\* The entries of the history `emitted` that name a tile key, in order.
EventsOf(id) == SelectSeq(emitted.events, LAMBDA named : named.id = id)

\* The tile keys named by an emitted event.
NamedKeys == {emitted.events[i].id : i \in 1..Len(emitted.events)}

\* C16: over any sequence of updateDronePosition calls the events naming a
\* tile key alternate load, unload, load, ... from a "load"; the "unload"
\* names the tile object the "load" before it named; a tile object is named
\* by one "load" and at most one "unload" after it and by nothing later, so
\* a later residency of the key is a new object; the resident tiles are
\* the ones whose last event is their "load".
C16_LoadUnloadAlternate ==
    /\ \A id \in NamedKeys :
          LET events == EventsOf(id)
          IN  \A i \in 1..Len(events) :
                 /\ events[i].type = IF i % 2 = 1 THEN "load" ELSE "unload"
                 /\ i % 2 = 0 => events[i].ref = events[i - 1].ref
    /\ \A i, j \in 1..Len(emitted.events) :
          (i < j /\ emitted.events[i].ref = emitted.events[j].ref)
              => /\ emitted.events[i].type = "load"
                 /\ emitted.events[j].type = "unload"
                 /\ emitted.events[i].id = emitted.events[j].id
    /\ \A b \in Range(getLoadedBlocks) :
          /\ b.id \in NamedKeys
          /\ EventsOf(b.id)[Len(EventsOf(b.id))]
                = [type |-> "load", id |-> b.id, ref |-> b.ref]
    /\ \A id \in NamedKeys :
          EventsOf(id)[Len(EventsOf(id))].type = "load" => getBlock(id) # Null

\* A tile key was loaded, unloaded and loaded again as a new object, and a
\* listener was told of the last load.
C16_Witness ==
    \E id \in NamedKeys :
        /\ Returned /\ Notified("load") # {}
        /\ Len(EventsOf(id)) = 3
        /\ EventsOf(id)[3].type = "load"
        /\ EventsOf(id)[3].ref # EventsOf(id)[1].ref
        /\ getBlock(id) # Null
        /\ getBlock(id).ref = EventsOf(id)[3].ref

\* The keys of a sequence of tiles.
IdsOf(blocks) == {blocks[i].id : i \in 1..Len(blocks)}

\* C17: with unloadDistance >= loadRadius a call evicts no tile it has
\* inserted, and no key is named both by the "load" and by the "unload"
\* notification of the call.
C17_NoLoadAndUnloadOfOneTile ==
    (Processed /\ unloadDistance >= loadRadius)
    => /\ Range(call.inserted) \cap Range(call.removed) = {}
       /\ IdsOf(call.inserted) \cap IdsOf(call.removed) = {}
       /\ \A i \in Notified("load"), j \in Notified("unload") :
             IdsOf(log[i].blocks) \cap IdsOf(log[j].blocks) = {}
       /\ Returned => Range(call.inserted) \subseteq Range(getLoadedBlocks)

\* A call that inserted tiles and evicted others, and told a listener of
\* both.
C17_Witness ==
    /\ Returned /\ Processed
    /\ unloadDistance >= loadRadius
    /\ Len(call.inserted) > 0
    /\ Len(call.removed) > 0
    /\ Notified("load") # {}
    /\ Notified("unload") # {}

\* C18 (as claimed): a configuration with unloadDistance < loadRadius is
\* rejected by the constructor, so no manager that has one processes a call
\* of updateDronePosition.
C18_InvalidConfigurationRejected ==
    unloadDistance < loadRadius
        => ~(call.op = "updateDronePosition" /\ Processed)

\* The manager was built with no option given: every field has its default.
DefaultConfiguration ==
    options = [blockSize |-> 0, loadRadius |-> 0, unloadDistance |-> 0]

\* The cells of a grid of 1000 m blocks, <<row, column>> from the observer's
\* cell, whose centre is within 2000 m of the observer.
CellsWithin2000m ==
    {c \in (-3..3) \X (-3..3) :
        Sq(1000 * c[1]) + Sq(1000 * c[2]) <= Sq(2000)}

\* C19 (as claimed): the first call of a manager with the default
\* configuration, at latitude 0 and longitude 0, leaves as many tiles
\* resident as a grid of 1000 m blocks has cells with their centre within
\* 2000 m, which is between 9 and 13.
C19_DefaultLoadsCellsWithin2000m ==
    (/\ Returned /\ Processed
     /\ DefaultConfiguration
     /\ call.baselineBefore = Null /\ call.cacheBefore = <<>>
     /\ call.lat = 0 /\ call.lng = 0)
    => /\ Len(getLoadedBlocks) = Cardinality(CellsWithin2000m)
       /\ Len(getLoadedBlocks) \in 9..13

\* C20 (as claimed): with the default configuration and a listener, the
\* call at latitude 0 and longitude 0.02 that follows a call at (0, 0)
\* delivers a "load" notification and an "unload" notification, neither of
\* them empty.
C20_MoveEastLoadsAndUnloads ==
    (/\ Returned
     /\ DefaultConfiguration
     /\ call.baselineBefore = [lat |-> 0, lng |-> 0]
     /\ Len(call.cacheBefore) > 0
     /\ call.lat = 0 /\ call.lng = 200
     /\ Len(listeners) > 0)
    => /\ \E i \in Notified("load") : Len(log[i].blocks) > 0
       /\ \E i \in Notified("unload") : Len(log[i].blocks) > 0

----------------------------------------------------------------------------
(* The generator.                                                          *)

\* The result of a call without the time of the call.
WithoutLoadedAt(block) == [block EXCEPT !.loadedAt = 0]

Heightfields == { results[k].block.elevation : k \in 1..Len(results) }

\* C22: every sample of every generated heightfield lies in
\* [ELEVATION_MIN, ELEVATION_MAX] = [0, 500] m, the data array has exactly
\* width x height samples, and minElevation and maxElevation are the least
\* and the greatest of the samples.
C22_HeightfieldWithinRange ==
    \A h \in Heightfields :
        /\ \A k \in 1..Len(h.data) :
              /\ h.data[k] >= ELEVATION_MIN * 1000
              /\ h.data[k] <= ELEVATION_MAX * 1000
        /\ Len(h.data) = h.width * h.height
        /\ \E k \in 1..Len(h.data) : h.data[k] = h.minElevation
        /\ \E k \in 1..Len(h.data) : h.data[k] = h.maxElevation
        /\ \A k \in 1..Len(h.data) :
              /\ h.data[k] >= h.minElevation
              /\ h.data[k] <= h.maxElevation

\* C23: the number of contextual items of a tile lies within
\* [ITEMS_PER_BLOCK_MIN, ITEMS_PER_BLOCK_MAX] = [5, 15].
C23_ItemCountWithinRange ==
    \A k \in 1..Len(results) :
        /\ Len(results[k].block.items) >= ITEMS_PER_BLOCK_MIN
        /\ Len(results[k].block.items) <= ITEMS_PER_BLOCK_MAX

----------------------------------------------------------------------------
(* The bounds of the resident tiles.                                       *)

\* The grid coordinate a tile was generated for, read off its id.
GridCoordinate(block) ==
    [lat |-> parseFloat(block.id[2]), lng |-> parseFloat(block.id[3])]

\* C24: the bounds of every resident tile contain the whole cell of the
\* grid of step blockSize around its grid coordinate (gLat, gLng):
\* south <= gLat - blockSize/2, north >= gLat + blockSize/2,
\* west <= gLng - blockSize/2, east >= gLng + blockSize/2, with the grid
\* coordinate at the centre of the bounds, also for a manager constructed
\* with an explicit blockSize.
C24_BoundsContainGridCell ==
    \A block \in Range(getLoadedBlocks) :
        LET g == GridCoordinate(block)
            step == blockSize * 10000
        IN  /\ 2 * block.bounds.south <= 2 * g.lat - step
            /\ 2 * block.bounds.north >= 2 * g.lat + step
            /\ 2 * block.bounds.west <= 2 * g.lng - step
            /\ 2 * block.bounds.east >= 2 * g.lng + step
            /\ block.bounds.north + block.bounds.south = 2 * g.lat
            /\ block.bounds.east + block.bounds.west = 2 * g.lng

----------------------------------------------------------------------------
(* The scale of a degree.                                                  *)

\* C25: metersPerDegreeAtLatitude strictly decreases as |latitude| grows
\* towards the poles, and is strictly positive at every latitude.
C25_StrictlyDecreasesTowardPoles ==
    \A i \in 1..Len(measured), j \in 1..Len(measured) :
        /\ measured[i].meters > 0
        /\ Abs(measured[i].latitude) < Abs(measured[j].latitude)
              => measured[i].meters > measured[j].meters

----------------------------------------------------------------------------
(* Listeners that act on the manager from inside a notification.           *)

\* The listener whose closure the invocation of a log entry called.
UnsubscribedBy(entry) ==
    IF "unsubscribed" \in DOMAIN entry THEN entry.unsubscribed ELSE "none"

\* The listeners still in the Set when the delivery of the event of the
\* given type was over: those in it when the call began, less the ones
\* unsubscribed by an invocation up to then.
RegisteredAfter(type) ==
    Range(call.listenersBefore)
        \ { UnsubscribedBy(log[i]) :
              i \in { k \in 1..Len(log) :
                        type = "load" => log[k].type = "load" } }

\* The delivery of the event of the given type is over.
Delivered(type) ==
    /\ call.op = "updateDronePosition"
    /\ Processed
    /\ IF type = "load"
       THEN /\ Len(call.inserted) > 0
            /\ (stack = <<>> \/ stack[1].phase = "unload")
       ELSE /\ Len(call.removed) > 0
            /\ call.returned

\* C26: when a listener unsubscribes itself or another listener while a
\* notification is delivered, the delivery does not fail, no listener is
\* invoked twice for the notification, a listener removed before its turn
\* is not invoked, and every listener still registered when the delivery
\* is over has been invoked for it.
C26_UnsubscribeDuringDelivery ==
    /\ ~call.escaped
    /\ \A type \in {"load", "unload"} :
          /\ \A i \in Notified(type), j \in Notified(type) :
                i # j => log[i].listener # log[j].listener
          /\ Delivered(type) =>
                \A listener \in RegisteredAfter(type) :
                    Invocations(listener, type) # {}
    /\ \A i \in 1..Len(log), j \in 1..Len(log) :
          i < j => UnsubscribedBy(log[i]) # log[j].listener

\* A delivery to two listeners is over in which the first unsubscribed
\* itself and the second was still invoked.
C26_Witness ==
    /\ Delivered("load")
    /\ Len(call.listenersBefore) = 2
    /\ \E i \in Notified("load"), j \in Notified("load") :
          /\ i < j
          /\ log[i].listener = call.listenersBefore[1]
          /\ UnsubscribedBy(log[i]) = log[i].listener
          /\ log[j].listener = call.listenersBefore[2]

\* Squared projected distance from the debounce baseline to a point.
BaselineDistSq(lat, lng) ==
    distanceBetweenCoords(lastDronePosition.lat, lastDronePosition.lng,
                          lat, lng)

\* C28: whenever no updateDronePosition call is in progress on a manager
\* that has not been disposed, every grid tile within loadRadius of the
\* debounce baseline is resident and no resident tile has its centre
\* farther than unloadDistance from the baseline; also after calls that a
\* listener made from inside a notification.
C28_ResidentSetMatchesBaseline ==
    (stack = <<>> /\ lastDronePosition # Null)
    => /\ \A g \in GridPoints :
             BaselineDistSq(g[1], g[2]) <= KmSq(loadRadius)
                 => getBlock(BlockId(g[1], g[2])) # Null
       /\ \A b \in Range(getLoadedBlocks) :
             BaselineDistSq(getBlockCenter(b.bounds).lat,
                            getBlockCenter(b.bounds).lng)
                 <= KmSq(unloadDistance)

----------------------------------------------------------------------------
(* dispose() and the debounce baseline.                                    *)

\* The state dispose() leaves: cache and listener Set empty, the baseline
\* as it was, and no notification delivered or pending.
DisposeLeavesBaseline ==
    call.op = "dispose"
    => /\ cache = <<>>
       /\ listeners = <<>>
       /\ lastDronePosition = call.baselineBefore
       /\ log = <<>>
       /\ stack = <<>>

\* The call of updateDronePosition that follows dispose() on a manager
\* with a baseline: within the movement threshold of the baseline it
\* changes nothing and the cache stays empty; farther away it puts tiles
\* into the cache.
CallAfterDispose ==
    (/\ call.op = "dispose"
     /\ call'.op = "updateDronePosition"
     /\ lastDronePosition # Null)
    => IF BaselineDistSq(call'.lat, call'.lng) < KmSq(MovementThreshold)
       THEN /\ cache' = <<>>
            /\ lastDronePosition' = lastDronePosition
            /\ listeners' = <<>>
            /\ stack' = <<>>
       ELSE cache' # <<>>

\* C29: dispose() changes only the cache and the listener Set; it delivers
\* no "unload" notification and leaves the debounce baseline, so that
\* after it a call within 100 m of the last processed position is a no-op
\* that leaves the cache empty, and a call at least 100 m away reloads
\* tiles into the cache.
C29_DisposeKeepsBaseline ==
    []DisposeLeavesBaseline /\ [][CallAfterDispose]_vars

----------------------------------------------------------------------------
(* Registration by function identity.                                      *)

\* C30: a listener is registered by the identity of the function.
\* Subscribing a function that is registered changes nothing, so no
\* function is in the Set twice and none is invoked twice for one
\* notification; calling any closure ever returned for a function, a stale
\* one included, leaves the function unregistered and the others as they
\* were.
C30_RegistrationByIdentity ==
    /\ \A i \in 1..Len(listeners), j \in 1..Len(listeners) :
          i # j => listeners[i] # listeners[j]
    /\ (call.op = "onDataChange"
          /\ PlaceOf(call.listenersBefore, call.listener) # 0)
       => listeners = call.listenersBefore
    /\ \A listener \in Listeners, type \in {"load", "unload"} :
          Cardinality(Invocations(listener, type)) <= 1
    /\ call.op = "unsubscribe"
       => /\ PlaceOf(listeners, call.listener) = 0
          /\ listeners = SelectSeq(call.listenersBefore,
                                   LAMBDA x : x # call.listener)

\* The first closure returned for a function is called after the function
\* was unsubscribed, subscribed again and subscribed once more: it is
\* stale, and it has removed the registration.
C30_Witness ==
    /\ call.op = "unsubscribe"
    /\ handles.called.listener = call.listener
    /\ handles.called.stale
    /\ handles.called.serial = 1
    /\ handles.returned[call.listener] = 3
    /\ PlaceOf(call.listenersBefore, call.listener) # 0
    /\ PlaceOf(listeners, call.listener) = 0

----------------------------------------------------------------------------
(* The context layer.                                                      *)

\* The ids of the items of the resident blocks.
ItemsOfResidentBlocks ==
    UNION { Range(BlockItemIds(block)) : block \in Range(getLoadedBlocks) }

\* C27: once the layer has handled an "unload" notification it holds no
\* mesh and no item data for an item of a block the notification names;
\* and whenever every notification has been handled, the item ids it holds
\* are those of the items of the resident blocks.
C27_LayerHoldsItemsOfResidentBlocks ==
    /\ (Len(log) > 0 /\ log[Len(log)].type = "unload")
       => \A block \in Range(log[Len(log)].blocks) :
             /\ Range(BlockItemIds(block)) \cap Range(itemMeshes) = {}
             /\ Range(BlockItemIds(block)) \cap Range(itemData) = {}
    /\ stack = <<>>
       => /\ Range(itemMeshes) = ItemsOfResidentBlocks
          /\ Range(itemData) = ItemsOfResidentBlocks

====
